---- MODULE Spec2Model ----
(***************************************************************************)
(* A model of the routing library's message filter                        *)
(* (src/src/routing_message_filter.rs) and of the BootstrappingPeer state *)
(* (src/src/states/bootstrapping_peer.rs).                                *)
(***************************************************************************)
EXTENDS Integers, Sequences, FiniteSets, TLC

(***************************************************************************)
(* Program constants.                                                      *)
(***************************************************************************)
INCOMING_EXPIRY_DURATION_SECS == 60 * 20
OUTGOING_EXPIRY_DURATION_SECS == 60 * 10

(***************************************************************************)
(* Bounds of the model.                                                    *)
(***************************************************************************)
\* The fake clock is advanced up to this many seconds.
MaxTime == 1202
\* Number of filter calls made in one behaviour of the filter specification.
MaxCalls == 3
\* Distinct peers (PublicIds) a message can be sent to.
NumPeers == 2

\* The fake clock is advanced up to this many seconds while messages are
\* relayed, and this many messages are delivered to the relaying elder.
MaxRelayTime == 2403
MaxDeliveries == 4

\* Timeout tokens the timer hands out, and transport bootstrap attempts
\* awaiting an answer at one time.
MaxTokens == 3
MaxBootstraps == 2
\* Width of a name in the model (256 in the program), and the longest
\* section prefix an EldersInfo carries.
NameBits == 4
MaxPrefixBits == 1
MaxLengths == 4
MaxBitCount == 9
MaxNodes == 8
MaxRelocations == 1

NoTime == 0 - 1

Peers == 1 .. NumPeers

\* The peers a message can arrive from: two deliverers are enough to tell a
\* filter keyed by the deliverer from one keyed by the digest alone.
Senders == { p \in Peers : p <= 2 }

\* The destination kinds a message can carry; a routed message is a
\* destination and a payload.
DstLocation == {"Direct", "Node", "Section"}

\* The payloads of the model.
Contents == {"payload"}

Messages == [dst : DstLocation, content : Contents]

message_dst(msg) == msg.dst

\* The digest of the serialised message: every field of the message is
\* hashed, and the hash is collision free on the messages of the model.
DstTag(dst) == CASE dst = "Direct" -> 0 [] dst = "Node" -> 1 [] dst = "Section" -> 2

full_crypto_hash(msg) == <<DstTag(msg.dst), msg.content>>

\* The clock steps of the model.  The incoming duration is twice the outgoing
\* one, so these two steps put calls exactly one duration apart, one second
\* more than that, and (1200 - 601) less than that, for both filters.
AdvanceSteps ==
    { OUTGOING_EXPIRY_DURATION_SECS, OUTGOING_EXPIRY_DURATION_SECS + 1 }

(***************************************************************************)
(* The time-expiring containers the filter is built on.  An entry is       *)
(* evicted once it is older than the expiry duration; eviction happens     *)
(* before every insert.                                                    *)
(***************************************************************************)
Expired(instant, ttl, t) == instant + ttl < t

\* MessageFilter<K>: one queue entry per insertion; the count of a key is the
\* number of its insertions that are still live.
MessageFilter_remove_expired(queue, ttl, t) ==
    SelectSeq(queue, LAMBDA e : ~Expired(e.instant, ttl, t))

MessageFilter_count(queue, k) ==
    Len(SelectSeq(queue, LAMBDA e : e.key = k))

MessageFilter_insert(queue, k, ttl, t) ==
    LET live == MessageFilter_remove_expired(queue, ttl, t)
        q2 == Append(live, [key |-> k, instant |-> t])
    IN  [filter |-> q2, count |-> MessageFilter_count(q2, k)]

\* LruCache<K, ()> without a capacity: one entry per key, re-stamped on
\* insert; insert returns whether a live entry was replaced.
LruCache_remove_expired(cache, ttl, t) ==
    { e \in cache : ~Expired(e.instant, ttl, t) }

LruCache_insert(cache, k, ttl, t) ==
    LET live == LruCache_remove_expired(cache, ttl, t)
        old == { e \in live : e.key = k }
    IN  [cache |-> (live \ old) \cup {[key |-> k, instant |-> t]},
         is_some |-> old # {}]

(***************************************************************************)
(* RoutingMessageFilter.                                                   *)
(***************************************************************************)
\* Variant: the two expiry durations are given to the wrong filters.
RoutingMessageFilter_new_swapped ==
    [incoming |-> << >>,
     incoming_duration |-> OUTGOING_EXPIRY_DURATION_SECS,
     outgoing |-> {},
     outgoing_duration |-> INCOMING_EXPIRY_DURATION_SECS]

RoutingMessageFilter_new ==
    [incoming |-> << >>,
     incoming_duration |-> INCOMING_EXPIRY_DURATION_SECS,
     outgoing |-> {},
     outgoing_duration |-> OUTGOING_EXPIRY_DURATION_SECS]

\* Variant: the insertion count is compared with >= 1 instead of > 1.
filter_incoming_ge(self, msg, t) ==
    IF message_dst(msg) = "Direct"
    THEN [filter |-> self, result |-> "NewMessage"]
    ELSE LET hash == full_crypto_hash(msg)
             ins == MessageFilter_insert(self.incoming, hash,
                                         self.incoming_duration, t)
         IN  [filter |-> [self EXCEPT !.incoming = ins.filter],
              result |-> IF ins.count >= 1 THEN "KnownMessage" ELSE "NewMessage"]

\* Variant: direct messages are filtered like any other message.
filter_incoming_no_direct(self, msg, t) ==
    LET hash == full_crypto_hash(msg)
        ins == MessageFilter_insert(self.incoming, hash,
                                    self.incoming_duration, t)
    IN  [filter |-> [self EXCEPT !.incoming = ins.filter],
         result |-> IF ins.count > 1 THEN "KnownMessage" ELSE "NewMessage"]

filter_incoming(self, msg, t) ==
    IF message_dst(msg) = "Direct"
    THEN [filter |-> self, result |-> "NewMessage"]
    ELSE LET hash == full_crypto_hash(msg)
             ins == MessageFilter_insert(self.incoming, hash,
                                         self.incoming_duration, t)
         IN  [filter |-> [self EXCEPT !.incoming = ins.filter],
              result |-> IF ins.count > 1 THEN "KnownMessage" ELSE "NewMessage"]

\* Variant: the entry is looked up but the new entry is not stored.
filter_outgoing_no_insert(self, msg, pub_id, t) ==
    IF message_dst(msg) = "Direct"
    THEN [filter |-> self, result |-> "NewMessage"]
    ELSE LET hash == full_crypto_hash(msg)
             ins == LruCache_insert(self.outgoing, <<hash, pub_id>>,
                                    self.outgoing_duration, t)
         IN  [filter |-> self,
              result |-> IF ins.is_some THEN "KnownMessage" ELSE "NewMessage"]

\* Variant: direct messages are filtered like any other message.
filter_outgoing_no_direct(self, msg, pub_id, t) ==
    LET hash == full_crypto_hash(msg)
        ins == LruCache_insert(self.outgoing, <<hash, pub_id>>,
                               self.outgoing_duration, t)
    IN  [filter |-> [self EXCEPT !.outgoing = ins.cache],
         result |-> IF ins.is_some THEN "KnownMessage" ELSE "NewMessage"]

\* Variant: the entry is keyed by the digest alone, for every recipient.
filter_outgoing_by_digest(self, msg, pub_id, t) ==
    IF message_dst(msg) = "Direct"
    THEN [filter |-> self, result |-> "NewMessage"]
    ELSE LET hash == full_crypto_hash(msg)
             ins == LruCache_insert(self.outgoing, <<hash, 0>>,
                                    self.outgoing_duration, t)
         IN  [filter |-> [self EXCEPT !.outgoing = ins.cache],
              result |-> IF ins.is_some THEN "KnownMessage" ELSE "NewMessage"]

filter_outgoing(self, msg, pub_id, t) ==
    IF message_dst(msg) = "Direct"
    THEN [filter |-> self, result |-> "NewMessage"]
    ELSE LET hash == full_crypto_hash(msg)
             ins == LruCache_insert(self.outgoing, <<hash, pub_id>>,
                                    self.outgoing_duration, t)
         IN  [filter |-> [self EXCEPT !.outgoing = ins.cache],
              result |-> IF ins.is_some THEN "KnownMessage" ELSE "NewMessage"]

(***************************************************************************)
(* BootstrappingPeer.                                                      *)
(***************************************************************************)
BOOTSTRAP_TIMEOUT == 20

\* Socket addresses of the peers a bootstrapping node can meet.
Addrs == {1, 2}

Names == 0 .. (2 ^ NameBits - 1)

None == [none |-> TRUE]

RECURSIVE SeqsUpTo(_, _)
SeqsUpTo(S, n) ==
    IF n = 0 THEN { << >> }
    ELSE LET shorter == SeqsUpTo(S, n - 1)
         IN  shorter \cup { Append(q, x) : q \in shorter, x \in S }

\* What a user can ask to have sent: a source, a destination and the bytes
\* of the content.
SrcLocation == {"Node", "Section"}

UserContents == { << >>, <<0>> }

UserRequests == [src : SrcLocation, dst : DstLocation, content : UserContents]

\* The user request made between the inputs of the network.
UserRequest == [src |-> "Node", dst |-> "Section", content |-> <<0>>]

\* Vec<ConnectionInfo>: duplicates allowed, order kept; as long as there are
\* addresses.
ContactLists == SeqsUpTo(Addrs, Cardinality(Addrs))

\* Prefix::new(bit_count, name): the top bit_count bits of name.
Prefix_new(bit_count, name) ==
    LET bits == IF bit_count > NameBits THEN NameBits ELSE bit_count
    IN  [bit_count |-> bits, value |-> name \div (2 ^ (NameBits - bits))]

Prefix_matches(prefix, name) ==
    name \div (2 ^ (NameBits - prefix.bit_count)) = prefix.value

\* The names FullId::within_range can come up with.
Prefix_range_inclusive(prefix) == { n \in Names : Prefix_matches(prefix, n) }

OtherVariants ==
    { "NeighbourInfo", "UserMessage", "NodeApproval", "AckMessage",
      "GenesisUpdate", "Relocate", "MessageSignature", "BootstrapRequest",
      "JoinRequest", "ConnectionResponse", "MemberKnowledge",
      "ParsecRequest", "ParsecResponse" }

Variants ==
    { [kind |-> "BootstrapResponse", response |-> "Join", bit_count |-> b,
       conn_infos |-> << >>] : b \in 0 .. MaxPrefixBits }
    \cup
    { [kind |-> "BootstrapResponse", response |-> "Rebootstrap", bit_count |-> 0,
       conn_infos |-> c] : c \in ContactLists }
    \cup
    { [kind |-> k, response |-> "", bit_count |-> 0, conn_infos |-> << >>] :
          k \in OtherVariants }

\* A message as the state sees it: destination, variant, whether the
\* signature check ends with a full verification.
BootMessages == [dst : {"Direct", "Node"}, variant : Variants, full : BOOLEAN]

\* The messages delivered to the bootstrapping node: every BootstrapResponse
\* as a verified Direct message, and one message for each way of being
\* dropped before handle_message (another variant, no full verification,
\* another destination).
DeliveredMessages ==
    { m \in BootMessages :
        \/ m.dst = "Direct" /\ m.full /\ m.variant.kind = "BootstrapResponse"
        \/ m.dst = "Direct" /\ m.full /\ m.variant.kind = "NodeApproval"
        \/ /\ m.variant.kind = "BootstrapResponse"
           /\ m.variant.response = "Join"
           /\ m.variant.bit_count = 0
           /\ (m.dst = "Direct") # m.full }

\* Timer::schedule: a fresh token, which will fire once.
Timer_schedule(self) ==
    [self EXCEPT !.timer_next = @ + 1,
                 !.timer_scheduled = @ \cup {self.timer_next}]

\* NetworkService / PeerMap.
PeerMap_connect(self, addr) == [self EXCEPT !.peer_map = @ \cup {addr}]

PeerMap_disconnect(self, addr) ==
    [self EXCEPT !.peer_map = @ \ {addr}, !.disconnected = @ \cup {addr}]

Base_disconnect(self, addr) == PeerMap_disconnect(self, addr)

remove_and_disconnect_all(self) ==
    [self EXCEPT !.peer_map = {}, !.disconnected = @ \cup self.peer_map]

service_bootstrap(self) ==
    [self EXCEPT !.bootstraps = @ + 1, !.outstanding = @ + 1]

\* Variant: the request always asks for the section of the node's own name.
get_destination_own_name(self) == self.full_id

\* Variant: a node that is not relocating asks for the section on the other
\* side of the first bit of its name.
get_destination_other_half(self) ==
    IF self.relocate_details # None
    THEN self.relocate_details.destination
    ELSE (self.full_id + 2 ^ (NameBits - 1)) % (2 ^ NameBits)

get_destination(self) ==
    IF self.relocate_details # None
    THEN self.relocate_details.destination
    ELSE self.full_id

\* Variant: the request is sent again to an address that has one pending.
send_bootstrap_request_again(self, dst) ==
    LET s1 == [self EXCEPT !.pending_requests = @ \cup {dst}]
        token == s1.timer_next
        s2 == Timer_schedule(s1)
        s3 == [s2 EXCEPT !.timeout_tokens = @ \cup {<<token, dst>>}]
        s4 == [s3 EXCEPT !.sent = Append(@,
                   [to |-> dst, variant |-> "BootstrapRequest",
                    destination |-> get_destination(s3)])]
    IN  PeerMap_connect(s4, dst)

\* Variant: the request is sent without a timeout.
send_bootstrap_request_no_timeout(self, dst) ==
    IF dst \in self.pending_requests
    THEN self
    ELSE LET s1 == [self EXCEPT !.pending_requests = @ \cup {dst}]
             s4 == [s1 EXCEPT !.sent = Append(@,
                        [to |-> dst, variant |-> "BootstrapRequest",
                         destination |-> get_destination(s1)])]
         IN  PeerMap_connect(s4, dst)

send_bootstrap_request(self, dst) ==
    IF dst \in self.pending_requests
    THEN self
    ELSE LET s1 == [self EXCEPT !.pending_requests = @ \cup {dst}]
             token == s1.timer_next
             s2 == Timer_schedule(s1)
             s3 == [s2 EXCEPT !.timeout_tokens = @ \cup {<<token, dst>>}]
             s4 == [s3 EXCEPT !.sent = Append(@,
                        [to |-> dst, variant |-> "BootstrapRequest",
                         destination |-> get_destination(s3)])]
         IN  PeerMap_connect(s4, dst)

RECURSIVE send_bootstrap_requests(_, _)
send_bootstrap_requests(self, conn_infos) ==
    IF conn_infos = << >>
    THEN self
    ELSE send_bootstrap_requests(send_bootstrap_request(self, Head(conn_infos)),
                                 Tail(conn_infos))

BootstrappingPeer_new(full_id) ==
    service_bootstrap(
        [pending_requests |-> {}, timeout_tokens |-> {},
         timer_next |-> 0, timer_scheduled |-> {},
         peer_map |-> {}, outstanding |-> 0,
         full_id |-> full_id, relocate_details |-> None,
         bootstraps |-> 0, sent |-> << >>, disconnected |-> {}])

\* The relocated node keeps the timer of its previous state, which may hold
\* a token scheduled there (token 0).
BootstrappingPeer_relocate(full_id, conn_infos, destination) ==
    send_bootstrap_requests(
        [pending_requests |-> {}, timeout_tokens |-> {},
         timer_next |-> 1, timer_scheduled |-> {0},
         peer_map |-> {}, outstanding |-> 0,
         full_id |-> full_id,
         relocate_details |-> [destination |-> destination],
         bootstraps |-> 0, sent |-> << >>, disconnected |-> {}],
        conn_infos)

Stay(self) == [self |-> self, transition |-> "Stay", events |-> << >>,
               details |-> None]

\* Variant: the name is made to match the section's prefix only, without the
\* extra bits.
join_section_no_extra_split(self, bit_count, new_name, payload_ok) ==
    LET old_full_id == self.full_id
        destination == get_destination(self)
        name_prefix == Prefix_new(bit_count, destination)
        s1 == IF ~Prefix_matches(name_prefix, self.full_id)
              THEN [self EXCEPT !.full_id = new_name]
              ELSE self
        details == s1.relocate_details
        s2 == [s1 EXCEPT !.relocate_details = None]
    IN  IF details # None /\ ~payload_ok
        THEN [self |-> s2, transition |-> "Err", events |-> << >>,
              details |-> None]
        ELSE [self |-> s2, transition |-> "IntoJoining", events |-> << >>,
              details |-> [bit_count |-> bit_count,
                           relocate_payload |->
                               IF details # None
                               THEN [details |-> details,
                                     new_id |-> s1.full_id,
                                     old_id |-> old_full_id]
                               ELSE None]]

\* Variant: the old id is read after the name was changed.
join_section_late_old_id(self, bit_count, new_name, payload_ok) ==
    LET destination == get_destination(self)
        extra_split_count == 3
        name_prefix == Prefix_new(bit_count + extra_split_count, destination)
        s1 == IF ~Prefix_matches(name_prefix, self.full_id)
              THEN [self EXCEPT !.full_id = new_name]
              ELSE self
        old_full_id == s1.full_id
        details == s1.relocate_details
        s2 == [s1 EXCEPT !.relocate_details = None]
    IN  IF details # None /\ ~payload_ok
        THEN [self |-> s2, transition |-> "Err", events |-> << >>,
              details |-> None]
        ELSE [self |-> s2, transition |-> "IntoJoining", events |-> << >>,
              details |-> [bit_count |-> bit_count,
                           relocate_payload |->
                               IF details # None
                               THEN [details |-> details,
                                     new_id |-> s1.full_id,
                                     old_id |-> old_full_id]
                               ELSE None]]

\* join_section: new_name is the name FullId::within_range draws, payload_ok
\* whether RelocatePayload::new succeeds.
join_section(self, bit_count, new_name, payload_ok) ==
    LET old_full_id == self.full_id
        destination == get_destination(self)
        extra_split_count == 3
        name_prefix == Prefix_new(bit_count + extra_split_count, destination)
        s1 == IF ~Prefix_matches(name_prefix, self.full_id)
              THEN [self EXCEPT !.full_id = new_name]
              ELSE self
        details == s1.relocate_details
        s2 == [s1 EXCEPT !.relocate_details = None]
    IN  IF details # None /\ ~payload_ok
        THEN [self |-> s2, transition |-> "Err", events |-> << >>,
              details |-> None]
        ELSE [self |-> s2, transition |-> "IntoJoining", events |-> << >>,
              details |-> [bit_count |-> bit_count,
                           relocate_payload |->
                               IF details # None
                               THEN [details |-> details,
                                     new_id |-> s1.full_id,
                                     old_id |-> old_full_id]
                               ELSE None]]

\* Variant: the timeout tokens of the previous requests are kept.
reconnect_to_new_section_keep_tokens(self, new_conn_infos) ==
    LET s1 == remove_and_disconnect_all(self)
        s2 == [s1 EXCEPT !.pending_requests = {}]
    IN  send_bootstrap_requests(s2, new_conn_infos)

reconnect_to_new_section(self, new_conn_infos) ==
    LET s1 == remove_and_disconnect_all(self)
        s2 == [s1 EXCEPT !.pending_requests = {}, !.timeout_tokens = {}]
    IN  send_bootstrap_requests(s2, new_conn_infos)

request_failed(self) ==
    IF self.pending_requests = {} THEN service_bootstrap(self) ELSE self

in_dst_location(dst) == dst = "Direct"

\* Variant: the request of a node that is not bootstrapped is refused.
handle_send_message_refused(self, src, dst, content) ==
    [self |-> self, result |-> "Err"]

\* Ok(()) whatever is asked for; the arguments are not looked at.
handle_send_message(self, src, dst, content) ==
    [self |-> self, result |-> "Ok"]

\* Variant: the node gives up when a token fires.
handle_timeout_gives_up(self, token) ==
    [self |-> [self EXCEPT !.timeout_tokens = { e \in @ : e[1] # token }],
     transition |-> "Terminate", events |-> <<"Terminated">>,
     details |-> None]

\* Variant: every timeout re-invokes the transport bootstrap.
handle_timeout_always_bootstrap(self, token) ==
    IF \E a \in Addrs : <<token, a>> \in self.timeout_tokens
    THEN LET peer_addr == CHOOSE a \in Addrs : <<token, a>> \in self.timeout_tokens
             s1 == [self EXCEPT !.timeout_tokens = @ \ {<<token, peer_addr>>}]
         IN  IF peer_addr \notin s1.pending_requests
             THEN Stay(s1)
             ELSE Stay(service_bootstrap(Base_disconnect(
                      [s1 EXCEPT !.pending_requests = @ \ {peer_addr}], peer_addr)))
    ELSE Stay(self)

\* Variant: a token without a recorded peer counts as a failed request.
handle_timeout_unknown_token_fails(self, token) ==
    IF \E a \in Addrs : <<token, a>> \in self.timeout_tokens
    THEN LET peer_addr == CHOOSE a \in Addrs : <<token, a>> \in self.timeout_tokens
             s1 == [self EXCEPT !.timeout_tokens = @ \ {<<token, peer_addr>>}]
         IN  IF peer_addr \notin s1.pending_requests
             THEN Stay(s1)
             ELSE Stay(request_failed(Base_disconnect(
                      [s1 EXCEPT !.pending_requests = @ \ {peer_addr}], peer_addr)))
    ELSE Stay(request_failed(self))

handle_timeout(self, token) ==
    IF \E a \in Addrs : <<token, a>> \in self.timeout_tokens
    THEN LET peer_addr == CHOOSE a \in Addrs : <<token, a>> \in self.timeout_tokens
             s1 == [self EXCEPT !.timeout_tokens = @ \ {<<token, peer_addr>>}]
         IN  IF peer_addr \notin s1.pending_requests
             THEN Stay(s1)
             ELSE Stay(request_failed(Base_disconnect(
                      [s1 EXCEPT !.pending_requests = @ \ {peer_addr}], peer_addr)))
    ELSE Stay(self)

handle_bootstrapped_to(self, conn_info) ==
    Stay(send_bootstrap_request(self, conn_info))

\* Variant: the node terminates without telling the user.
handle_bootstrap_failure_silent(self) ==
    [self |-> self, transition |-> "Terminate", events |-> << >>,
     details |-> None]

handle_bootstrap_failure(self) ==
    [self |-> self, transition |-> "Terminate", events |-> <<"Terminated">>,
     details |-> None]

\* Variant: the lost peer is forgotten and nothing else is tried.
handle_connection_failure_no_retry(self, peer_addr) ==
    Stay(PeerMap_disconnect(
        [self EXCEPT !.pending_requests = @ \ {peer_addr}], peer_addr))

handle_connection_failure(self, peer_addr) ==
    Stay(request_failed(PeerMap_disconnect(
        [self EXCEPT !.pending_requests = @ \ {peer_addr}], peer_addr)))

\* Variant: the response is handled whoever sent it.
handle_message_any_sender(self, sender, msg, new_name, payload_ok) ==
    IF msg.variant.kind = "BootstrapResponse" /\ msg.variant.response = "Join"
    THEN join_section(self, msg.variant.bit_count, new_name, payload_ok)
    ELSE IF msg.variant.kind = "BootstrapResponse"
              /\ msg.variant.response = "Rebootstrap"
    THEN Stay(reconnect_to_new_section(self, msg.variant.conn_infos))
    ELSE [self |-> self, transition |-> "Panic", events |-> << >>,
          details |-> None]

handle_message(self, sender, msg, new_name, payload_ok) ==
    IF sender \notin self.pending_requests
    THEN Stay(Base_disconnect(self, sender))
    ELSE IF msg.variant.kind = "BootstrapResponse" /\ msg.variant.response = "Join"
    THEN join_section(self, msg.variant.bit_count, new_name, payload_ok)
    ELSE IF msg.variant.kind = "BootstrapResponse"
              /\ msg.variant.response = "Rebootstrap"
    THEN Stay(reconnect_to_new_section(self, msg.variant.conn_infos))
    ELSE [self |-> self, transition |-> "Panic", events |-> << >>,
          details |-> None]

unhandled_message(self) == Stay(self)

filter_incoming_message(msg) == TRUE

\* Variant: every message is passed on to handle_message.
should_handle_message_everything(msg) == TRUE

\* Variant: NodeApproval, which the next state waits for, is accepted too.
should_handle_message_node_approval(msg) ==
    msg.variant.kind \in {"BootstrapResponse", "NodeApproval"}

should_handle_message(msg) ==
    CASE msg.variant.kind = "BootstrapResponse" -> TRUE
      [] msg.variant.kind \in
             { "NeighbourInfo", "UserMessage", "NodeApproval", "AckMessage",
               "GenesisUpdate", "Relocate", "MessageSignature",
               "BootstrapRequest", "JoinRequest", "ConnectionResponse",
               "MemberKnowledge", "ParsecRequest", "ParsecResponse" } -> FALSE

\* Variant: the outcome of the verification is not looked at.
verify_message_lenient(msg) == "Ok"

\* Ok(true) for a fully verified message, an error otherwise.
verify_message(msg) == IF msg.full THEN "Ok" ELSE "Err"

relay_message(self, msg) == self

\* The path of a received message through the state: relay, destination
\* check, incoming filter, then should_handle_message and verify_message
\* before handle_message.
try_handle_message(self, sender, msg, new_name, payload_ok) ==
    LET s1 == relay_message(self, msg)
    IN  IF ~in_dst_location(msg.dst) \/ ~filter_incoming_message(msg)
        THEN Stay(s1)
        ELSE IF ~should_handle_message(msg)
        THEN unhandled_message(s1)
        ELSE IF verify_message(msg) # "Ok"
        THEN [self |-> s1, transition |-> "Err", events |-> << >>,
              details |-> None]
        ELSE handle_message(s1, sender, msg, new_name, payload_ok)


(***************************************************************************)
(* State.                                                                  *)
(***************************************************************************)
VARIABLES
    now,        \* the monotonic clock, in seconds
    filter,     \* the RoutingMessageFilter
    ncalls,     \* number of filter calls made so far
    last,       \* the most recent filter call and what it returned
    in_calls,   \* per message: the first and the latest filter_incoming call
    out_calls   \* per (message, peer): the latest filter_outgoing call and
                \* the latest one that returned NewMessage

filter_vars == <<now, filter, ncalls, last, in_calls, out_calls>>


VARIABLES
    state,              \* the state of the state machine
    pending_requests,
    timeout_tokens,     \* pairs <<token, address>>
    timer_next,         \* the timer's next token
    timer_scheduled,    \* tokens scheduled and not fired yet
    peer_map,           \* addresses the network service is connected to
    outstanding,        \* bootstrap attempts the transport has not answered
    full_id,
    relocate_details,
    outbox,             \* user events emitted
    joining_details,    \* what the IntoJoining transition carried
    event,              \* the input handled last
    pre,                \* the node as that input found it
    transition,         \* the transition its handler returned
    bootstraps,         \* transport bootstrap attempts its handler started
    sent,               \* direct messages its handler sent
    disconnected        \* addresses its handler disconnected

boot_vars ==
    <<state, pending_requests, timeout_tokens, timer_next, timer_scheduled,
      peer_map, outstanding, full_id, relocate_details, outbox,
      joining_details, event, pre, transition, bootstraps, sent, disconnected>>

VARIABLES
    nodes,          \* the nodes of the test network, in the order of creation
    sections,       \* what the consensus engine has agreed on, per section
    relocations     \* number of relocations so far

net_vars == <<nodes, sections, relocations>>

VARIABLES
    prefix_lengths,     \* the prefix lengths the harness is asked for
    checked             \* what sanity_check made of them

harness_vars == <<prefix_lengths, checked>>

vars == <<filter_vars, boot_vars, net_vars, harness_vars>>

NoCall == [op |-> "none"]

FilterInit ==
    /\ now = 0
    /\ filter = RoutingMessageFilter_new
    /\ ncalls = 0
    /\ last = NoCall
    /\ in_calls = [m \in Messages |-> [first |-> NoTime, latest |-> NoTime, from |-> 0]]
    /\ out_calls = [k \in Messages \X Peers |-> [latest |-> NoTime, new |-> NoTime]]


\* The node as the next input finds it, with nothing done yet.
Self ==
    [pending_requests |-> pending_requests, timeout_tokens |-> timeout_tokens,
     timer_next |-> timer_next, timer_scheduled |-> timer_scheduled,
     peer_map |-> peer_map, outstanding |-> outstanding, full_id |-> full_id,
     relocate_details |-> relocate_details,
     bootstraps |-> 0, sent |-> << >>, disconnected |-> {}]

SelfIs(self) ==
    /\ pending_requests = self.pending_requests
    /\ timeout_tokens = self.timeout_tokens
    /\ timer_next = self.timer_next
    /\ timer_scheduled = self.timer_scheduled
    /\ peer_map = self.peer_map
    /\ outstanding = self.outstanding
    /\ full_id = self.full_id
    /\ relocate_details = self.relocate_details
    /\ bootstraps = self.bootstraps
    /\ sent = self.sent
    /\ disconnected = self.disconnected

\* The bootstrapping node while only the filter is exercised.
BootIdle ==
    /\ state = "BootstrappingPeer"
    /\ SelfIs(BootstrappingPeer_new(0))
    /\ outbox = << >>
    /\ joining_details = None
    /\ event = [type |-> "none"]
    /\ pre = None
    /\ transition = "Stay"

\* No test network while a single node or the filter is exercised.
NetIdle ==
    /\ nodes = << >>
    /\ sections = {}
    /\ relocations = 0

\* No prefix lengths have been given to the harness.
HarnessIdle ==
    /\ prefix_lengths = << >>
    /\ checked = "NotChecked"

\* The contact lists a relocation starts with: none, the first address, the
\* first two, and so on.
RelocateContacts ==
    { c \in ContactLists : \A i \in 1 .. Len(c) : c[i] = i }

\* A relocation destination that shares all but the last bit with the
\* node's name, and one that differs from it in the first bit.
RelocateDestinations == {1, 2 ^ (NameBits - 1)}

BootInit ==
    /\ state = "BootstrappingPeer"
    /\ \/ /\ SelfIs(BootstrappingPeer_new(0))
          /\ event = [type |-> "new"]
       \/ \E d \in RelocateDestinations, c \in RelocateContacts :
              /\ SelfIs(BootstrappingPeer_relocate(0, c, d))
              /\ event = [type |-> "relocate", conn_infos |-> c,
                          destination |-> d]
    /\ outbox = << >>
    /\ joining_details = None
    /\ pre = None
    /\ transition = "Stay"

\* The state machine applies what a handler returned.  A handler that ends
\* with an error leaves the node in its state.
Apply(ev, r) ==
    /\ r.self.timer_next <= MaxTokens
    /\ r.self.outstanding <= MaxBootstraps
    /\ pending_requests' = r.self.pending_requests
    /\ timeout_tokens' = r.self.timeout_tokens
    /\ timer_next' = r.self.timer_next
    /\ timer_scheduled' = r.self.timer_scheduled
    /\ peer_map' = r.self.peer_map
    /\ outstanding' = r.self.outstanding
    /\ full_id' = r.self.full_id
    /\ relocate_details' = r.self.relocate_details
    /\ bootstraps' = r.self.bootstraps
    /\ sent' = r.self.sent
    /\ disconnected' = r.self.disconnected
    /\ pre' = Self
    /\ outbox' = outbox \o r.events
    /\ transition' = r.transition
    /\ state' = CASE r.transition = "IntoJoining" -> "JoiningPeer"
                  [] r.transition = "Terminate" -> "Terminate"
                  [] r.transition = "Panic" -> "Panicked"
                  [] OTHER -> state
    /\ joining_details' = r.details
    /\ event' = ev
    /\ UNCHANGED <<filter_vars, net_vars, harness_vars>>

\* A scheduled token fires.
Timeout(token) ==
    /\ state = "BootstrappingPeer"
    /\ token \in timer_scheduled
    /\ Apply([type |-> "Timeout", token |-> token],
             handle_timeout([Self EXCEPT !.timer_scheduled = @ \ {token}], token))

\* The transport answers a bootstrap attempt.
BootstrappedTo(conn_info) ==
    /\ state = "BootstrappingPeer"
    /\ outstanding > 0
    /\ Apply([type |-> "BootstrappedTo", addr |-> conn_info],
             handle_bootstrapped_to([Self EXCEPT !.outstanding = @ - 1], conn_info))

BootstrapFailure ==
    /\ state = "BootstrappingPeer"
    /\ outstanding > 0
    /\ Apply([type |-> "BootstrapFailure"],
             handle_bootstrap_failure([Self EXCEPT !.outstanding = @ - 1]))

ConnectionFailure(peer_addr) ==
    /\ state = "BootstrappingPeer"
    /\ Apply([type |-> "ConnectionFailure", addr |-> peer_addr],
             handle_connection_failure(Self, peer_addr))

NewMessage(sender, msg, new_name, payload_ok) ==
    /\ state = "BootstrappingPeer"
    /\ Apply([type |-> "NewMessage", sender |-> sender, msg |-> msg,
              payload_ok |-> payload_ok],
             try_handle_message(Self, sender, msg, new_name, payload_ok))

\* The user asks for content to be sent from src to dst.  The state machine
\* stays in the state whatever the handler returns; an error is reported to
\* the caller.
SendMessage(src, dst, content) ==
    /\ state = "BootstrappingPeer"
    /\ LET r == handle_send_message(Self, src, dst, content)
       IN  Apply([type |-> "SendMessage", src |-> src, dst |-> dst,
                  content |-> content],
                 [self |-> r.self,
                  transition |-> IF r.result = "Ok" THEN "Stay" ELSE "Err",
                  events |-> << >>, details |-> None])

\* Variant: a terminated node answers an input with another bootstrap.
Terminated_handle_bootstraps(self) == Stay(service_bootstrap(self))

\* The terminal state drains no further work: whatever arrives is dropped.
Terminated_handle(self) == Stay(self)

\* What may still arrive once the node has terminated: the firing of tokens
\* scheduled earlier, the answer to a bootstrap attempt still outstanding,
\* the loss of a connection and the response of a peer a request was sent
\* to, user requests.
TerminatedInputs ==
    { [type |-> "Timeout", token |-> t] : t \in timer_scheduled }
    \cup (IF outstanding > 0
          THEN { [type |-> "BootstrappedTo", addr |-> a] : a \in Addrs }
                   \cup { [type |-> "BootstrapFailure"] }
          ELSE {})
    \cup { [type |-> "ConnectionFailure", addr |-> a] : a \in peer_map }
    \cup { [type |-> "NewMessage", sender |-> a, payload_ok |-> TRUE,
            msg |-> [dst |-> "Direct", full |-> TRUE,
                     variant |-> [kind |-> "BootstrapResponse",
                                  response |-> "Join", bit_count |-> 0,
                                  conn_infos |-> << >>]]] :
               a \in pending_requests }
    \cup { [type |-> "SendMessage", src |-> UserRequest.src,
            dst |-> UserRequest.dst, content |-> UserRequest.content] }

\* The input is recorded as one that found the node terminated.
AfterTermination(ev) ==
    /\ state = "Terminate"
    /\ Apply([type |-> "AfterTermination", input |-> ev],
             Terminated_handle(Self))

\* The message gets as far as join_section: a verified Direct Join response
\* from a peer with a pending request.
ReachesJoin(sender, msg) ==
    /\ in_dst_location(msg.dst)
    /\ should_handle_message(msg)
    /\ verify_message(msg) = "Ok"
    /\ sender \in pending_requests
    /\ msg.variant.response = "Join"

\* The names FullId::within_range may draw when this Join response makes the
\* node change its name; a single stand-in when no name is drawn.
DrawnNames(sender, msg) ==
    LET name_prefix == Prefix_new(msg.variant.bit_count + 3, get_destination(Self))
    IN  IF ReachesJoin(sender, msg) /\ ~Prefix_matches(name_prefix, full_id)
        THEN Prefix_range_inclusive(name_prefix)
        ELSE {0}

\* RelocatePayload::new can fail only where it is called: in join_section of
\* a relocating node.
PayloadOutcomes(sender, msg) ==
    IF ReachesJoin(sender, msg) /\ relocate_details # None
    THEN BOOLEAN
    ELSE {TRUE}

\* What a delivery is explored with: each name that may be drawn together
\* with a payload that is built, and the failure of RelocatePayload::new
\* together with the lowest of these names, the failure being independent of
\* the name drawn.
Draws(sender, msg) ==
    { d \in DrawnNames(sender, msg) \X PayloadOutcomes(sender, msg) :
        IF d[2] THEN TRUE ELSE \A m \in DrawnNames(sender, msg) : d[1] <= m }

BootNext ==
    \/ \E token \in 0 .. MaxTokens : Timeout(token)
    \/ \E a \in Addrs : BootstrappedTo(a)
    \/ BootstrapFailure
    \/ \E a \in Addrs : ConnectionFailure(a)
    \/ \E a \in Addrs, msg \in DeliveredMessages :
           \E d \in Draws(a, msg) : NewMessage(a, msg, d[1], d[2])
    \/ SendMessage(UserRequest.src, UserRequest.dst, UserRequest.content)
    \/ \E ev \in TerminatedInputs : AfterTermination(ev)

BootSpecInit == BootInit /\ FilterInit /\ NetIdle /\ HarnessIdle

BootSpec == BootSpecInit /\ [][BootNext]_vars

\* The user makes every request, between transport events and timeouts that
\* start, end and renew bootstrap requests.
SendNext ==
    \/ \E token \in 0 .. MaxTokens : Timeout(token)
    \/ \E a \in Addrs : BootstrappedTo(a)
    \/ \E a \in Addrs : ConnectionFailure(a)
    \/ \E rq \in UserRequests : SendMessage(rq.src, rq.dst, rq.content)

SendSpec == BootSpecInit /\ [][SendNext]_vars

\* The node is sent verified Direct messages of every variant (of the
\* Rebootstrap responses, the one without contacts) between transport events
\* that start and end requests.
VariantMessages ==
    { m \in BootMessages :
        /\ m.dst = "Direct"
        /\ m.full
        /\ m.variant.conn_infos = << >> }

VariantNext ==
    \/ \E a \in Addrs : BootstrappedTo(a)
    \/ \E a \in Addrs : ConnectionFailure(a)
    \/ \E a \in Addrs, msg \in VariantMessages :
           \E d \in Draws(a, msg) : NewMessage(a, msg, d[1], d[2])

VariantSpec == BootSpecInit /\ [][VariantNext]_vars

\* The node is sent BootstrapResponses and user messages, fully verified and
\* not, between transport events that start and end requests.
VerifyMessages ==
    { m \in BootMessages :
        \/ /\ m.dst = "Direct"
           /\ m.variant.kind = "BootstrapResponse"
           /\ Len(m.variant.conn_infos) <= 1
        \/ m.variant.kind = "UserMessage" }

VerifyNext ==
    \/ \E a \in Addrs : BootstrappedTo(a)
    \/ \E a \in Addrs : ConnectionFailure(a)
    \/ \E a \in Addrs, msg \in VerifyMessages :
           \E d \in Draws(a, msg) : NewMessage(a, msg, d[1], d[2])

VerifySpec == BootSpecInit /\ [][VerifyNext]_vars

\* Direct messages, fully verified and not: Join responses, the Rebootstrap
\* response without contacts, user messages.
OutcomeMessages ==
    { m \in VerifyMessages : m.dst = "Direct" /\ m.variant.conn_infos = << >> }

\* The verified Rebootstrap responses, with every list of contacts.
RequestMessages ==
    { m \in BootMessages :
        /\ m.dst = "Direct"
        /\ m.full
        /\ m.variant.kind = "BootstrapResponse"
        /\ m.variant.response = "Rebootstrap" }

\* What starts, ends and renews bootstrap requests: transport events,
\* timeouts and Rebootstrap responses.
RequestNext ==
    \/ \E token \in 0 .. MaxTokens : Timeout(token)
    \/ \E a \in Addrs : BootstrappedTo(a)
    \/ BootstrapFailure
    \/ \E a \in Addrs : ConnectionFailure(a)
    \/ \E a \in Addrs, msg \in RequestMessages :
           \E d \in Draws(a, msg) : NewMessage(a, msg, d[1], d[2])

RequestSpec == BootSpecInit /\ [][RequestNext]_vars

\* The transport answers every bootstrap attempt.
TransportAnswers ==
    \/ \E a \in Addrs : BootstrappedTo(a)
    \/ BootstrapFailure

\* The timer fires every token it has scheduled.
TimerFires == \E token \in 0 .. MaxTokens : Timeout(token)

\* Transport events and timer firings are delivered.
RequestLiveSpec ==
    RequestSpec /\ WF_vars(TransportAnswers) /\ WF_vars(TimerFires)

\* Every kind of input reaches the node: timeouts, transport events, user
\* requests and messages, from peers with and without a pending request.
OutcomeNext ==
    \/ \E token \in 0 .. MaxTokens : Timeout(token)
    \/ \E a \in Addrs : BootstrappedTo(a)
    \/ BootstrapFailure
    \/ \E a \in Addrs : ConnectionFailure(a)
    \/ \E a \in Addrs, msg \in OutcomeMessages :
           \E d \in Draws(a, msg) : NewMessage(a, msg, d[1], d[2])
    \/ SendMessage(UserRequest.src, UserRequest.dst, UserRequest.content)

OutcomeSpec == BootSpecInit /\ [][OutcomeNext]_vars

\* The fake clock advances only when it is told to.
Advance(d) ==
    /\ now + d <= MaxTime
    /\ now' = now + d
    /\ UNCHANGED <<filter, ncalls, last, in_calls, out_calls>>
    /\ UNCHANGED <<boot_vars, net_vars, harness_vars>>

\* A message delivered by peer `sender` is passed through the incoming filter.
FilterIncoming(msg, sender) ==
    /\ ncalls < MaxCalls
    /\ LET r == filter_incoming(filter, msg, now)
       IN  /\ filter' = r.filter
           /\ last' = [op |-> "incoming", msg |-> msg, peer |-> sender, at |-> now,
                       result |-> r.result, before |-> in_calls[msg]]
           /\ in_calls' = [in_calls EXCEPT ![msg] =
                  [first |-> IF @.first = NoTime THEN now ELSE @.first,
                   latest |-> now, from |-> sender]]
    /\ ncalls' = ncalls + 1
    /\ UNCHANGED <<now, out_calls>>
    /\ UNCHANGED <<boot_vars, net_vars, harness_vars>>

\* A message about to be sent to peer `pub_id` is passed through the outgoing
\* filter.
FilterOutgoing(msg, pub_id) ==
    /\ ncalls < MaxCalls
    /\ LET r == filter_outgoing(filter, msg, pub_id, now)
       IN  /\ filter' = r.filter
           /\ last' = [op |-> "outgoing", msg |-> msg, peer |-> pub_id, at |-> now,
                       result |-> r.result, before |-> out_calls[<<msg, pub_id>>]]
           /\ out_calls' = [out_calls EXCEPT ![<<msg, pub_id>>] =
                  [latest |-> now,
                   new |-> IF r.result = "NewMessage" THEN now ELSE @.new]]
    /\ ncalls' = ncalls + 1
    /\ UNCHANGED <<now, in_calls>>
    /\ UNCHANGED <<boot_vars, net_vars, harness_vars>>

FilterNext ==
    \/ \E d \in AdvanceSteps : Advance(d)
    \/ \E msg \in Messages, sender \in Senders : FilterIncoming(msg, sender)
    \/ \E msg \in Messages, pub_id \in Peers : FilterOutgoing(msg, pub_id)

FilterSpecInit == FilterInit /\ BootIdle /\ NetIdle /\ HarnessIdle

FilterSpec == FilterSpecInit /\ [][FilterNext]_vars

(***************************************************************************)
(* The routing path of an elder: incoming filter, local delivery or        *)
(* next-hop selection, outgoing filter per hop.                            *)
(***************************************************************************)
\* The elder of the model is addressed by Direct messages only; every other
\* message is for another location.
elder_in_dst_location(dst) == dst = "Direct"

\* The elders of the section chosen for the destination, from a fixed chain
\* snapshot: the whole elder set for a node, all but one for a section.
NextHops(msg) ==
    IF msg.dst = "Node" THEN Peers ELSE Peers \ {1}

\* Each hop is gated by filter_outgoing, one after the other.
RECURSIVE send_to_hops(_, _, _, _)
send_to_hops(self, msg, hops, t) ==
    IF hops = {}
    THEN [filter |-> self, sent |-> {}]
    ELSE LET p == CHOOSE x \in hops : \A y \in hops : x <= y
             r == filter_outgoing(self, msg, p, t)
             rest == send_to_hops(r.filter, msg, hops \ {p}, t)
         IN  [filter |-> rest.filter,
              sent |-> (IF r.result = "NewMessage" THEN {p} ELSE {}) \cup rest.sent]

route_message(self, msg, t) ==
    LET inc == filter_incoming(self, msg, t)
    IN  IF inc.result = "KnownMessage"
        THEN [filter |-> inc.filter, outcome |-> "dropped", sent |-> {}]
        ELSE IF elder_in_dst_location(message_dst(msg))
        THEN [filter |-> inc.filter, outcome |-> "received", sent |-> {}]
        ELSE LET out == send_to_hops(inc.filter, msg, NextHops(msg), t)
             IN  [filter |-> out.filter, outcome |-> "relayed", sent |-> out.sent]

RelayAdvance(d) ==
    /\ now + d <= MaxRelayTime
    /\ now' = now + d
    /\ UNCHANGED <<filter, ncalls, last, in_calls, out_calls>>
    /\ UNCHANGED <<boot_vars, net_vars, harness_vars>>

\* A message arrives at the elder and is routed to completion.
Deliver(msg) ==
    /\ ncalls < MaxDeliveries
    /\ LET r == route_message(filter, msg, now)
       IN  /\ filter' = r.filter
           /\ last' = [op |-> "deliver", msg |-> msg, at |-> now,
                       outcome |-> r.outcome, sent |-> r.sent,
                       before |-> in_calls[msg]]
    /\ in_calls' = [in_calls EXCEPT ![msg] =
           [first |-> IF @.first = NoTime THEN now ELSE @.first,
            latest |-> now, from |-> 0]]
    /\ ncalls' = ncalls + 1
    /\ UNCHANGED <<now, out_calls>>
    /\ UNCHANGED <<boot_vars, net_vars, harness_vars>>

RelayNext ==
    \/ \E d \in AdvanceSteps : RelayAdvance(d)
    \/ \E msg \in Messages : Deliver(msg)

RelaySpec == FilterSpecInit /\ [][RelayNext]_vars

(***************************************************************************)
(* The address space of the test network.                                  *)
(***************************************************************************)

\* Prefix::default(): the prefix every name matches.
Prefix_default == [bit_count |-> 0, value |-> 0]

Prefix_is_empty(prefix) == prefix.bit_count = 0

\* The first n bits of a prefix that has at least n bits.
Prefix_truncated(prefix, n) == prefix.value \div (2 ^ (prefix.bit_count - n))

ShorterBitCount(p, q) ==
    IF p.bit_count <= q.bit_count THEN p.bit_count ELSE q.bit_count

\* One of the two is a prefix of the other.
Prefix_is_compatible(p, q) ==
    LET n == ShorterBitCount(p, q)
    IN  Prefix_truncated(p, n) = Prefix_truncated(q, n)

\* The two differ in exactly one bit among the bits of the shorter one.
Prefix_is_neighbour(p, q) ==
    LET n == ShorterBitCount(p, q)
        a == Prefix_truncated(p, n)
        b == Prefix_truncated(q, n)
    IN  Cardinality({ k \in 0 .. n - 1 :
                        (a \div (2 ^ k)) % 2 # (b \div (2 ^ k)) % 2 }) = 1

\* The prefix extended by one bit.
Prefix_pushed(prefix, bit) ==
    [bit_count |-> prefix.bit_count + 1,
     value |-> 2 * prefix.value + (IF bit THEN 1 ELSE 0)]

\* Bit i, counted from the most significant one, is flipped; a prefix that
\* has no such bit is left alone.
Prefix_with_flipped_bit(prefix, i) ==
    IF i >= prefix.bit_count
    THEN prefix
    ELSE LET k == prefix.bit_count - 1 - i
             bit == (prefix.value \div (2 ^ k)) % 2
         IN  [prefix EXCEPT !.value = IF bit = 1 THEN @ - 2 ^ k ELSE @ + 2 ^ k]

\* Every name matching the prefix matches some prefix of the set.
Prefix_is_covered_by(prefix, prefixes) ==
    \A name \in Names :
        Prefix_matches(prefix, name) =>
            \E p \in prefixes : Prefix_matches(p, name)

\* The names of the nodes of the test network: one name for each value of
\* the first three bits.
NetNames == { name \in Names : name % (2 ^ (NameBits - 3)) = 0 }

\* The name of the node created with first = true.
FirstName == CHOOSE name \in NetNames : \A other \in NetNames : name <= other

(***************************************************************************)
(* A node of the test network, as the harness sees it.                     *)
(***************************************************************************)

UserEvent(kind, how, prefix) == [event |-> kind, how |-> how, prefix |-> prefix]

Connected(how) == UserEvent("Connected", how, Prefix_default)

SectionSplit(prefix) == UserEvent("SectionSplit", "", prefix)

Promoted == UserEvent("Promoted", "", Prefix_default)

Demoted == UserEvent("Demoted", "", Prefix_default)

EldersInfo(prefix, version, elders) ==
    [prefix |-> prefix, version |-> version, elders |-> elders]

Node_name(node) == node.name

Node_our_prefix(node) == node.own.prefix

Node_is_elder(node) == node.name \in node.own.elders

Node_neighbour_prefixes(node) == { info.prefix : info \in node.neighbours }

\* The EldersInfo the node holds for a prefix, as a set: empty when the
\* prefix is neither its own nor a neighbour's.
Node_infos(node, prefix) ==
    { info \in {node.own} \cup node.neighbours : info.prefix = prefix }

Node_section_elders(node, prefix) ==
    UNION { info.elders : info \in Node_infos(node, prefix) }

\* The version of the EldersInfo held for the prefix, 0 when there is none.
Node_section_elder_info_version(node, prefix) ==
    IF Node_infos(node, prefix) = {}
    THEN 0
    ELSE (CHOOSE info \in Node_infos(node, prefix) : TRUE).version

(***************************************************************************)
(* The invariant checker of the test harness.                              *)
(***************************************************************************)

\* Variant: the minimum number of elders is asked of the section with the
\* empty prefix too.
verify_section_invariants_for_node_strict(node, elder_size) ==
    LET our_prefix == Node_our_prefix(node)
        our_name == Node_name(node)
        our_section_elders == Node_section_elders(node, our_prefix)
        neighbour_prefixes == Node_neighbour_prefixes(node)
    IN  /\ Prefix_matches(our_prefix, our_name)
        /\ Cardinality(our_section_elders) >= elder_size
        /\ \A name \in our_section_elders : Prefix_matches(our_prefix, name)
        /\ IF ~Node_is_elder(node)
           THEN neighbour_prefixes = {}
           ELSE /\ \A prefix \in neighbour_prefixes :
                       ~Prefix_is_compatible(prefix, our_prefix)
                /\ \A prefix \in neighbour_prefixes :
                       Cardinality(Node_section_elders(node, prefix)) >= elder_size
                /\ \A prefix \in neighbour_prefixes :
                       \A name \in Node_section_elders(node, prefix) :
                           Prefix_matches(prefix, name)
                /\ \A prefix \in neighbour_prefixes :
                       Prefix_is_neighbour(our_prefix, prefix)
                /\ \A i \in 0 .. our_prefix.bit_count - 1 :
                       Prefix_is_covered_by(Prefix_with_flipped_bit(our_prefix, i),
                                            neighbour_prefixes)

\* TRUE when none of the assertions fails.
verify_section_invariants_for_node(node, elder_size) ==
    LET our_prefix == Node_our_prefix(node)
        our_name == Node_name(node)
        our_section_elders == Node_section_elders(node, our_prefix)
        neighbour_prefixes == Node_neighbour_prefixes(node)
    IN  /\ Prefix_matches(our_prefix, our_name)
        /\ ~Prefix_is_empty(our_prefix) =>
               Cardinality(our_section_elders) >= elder_size
        /\ \A name \in our_section_elders : Prefix_matches(our_prefix, name)
        /\ IF ~Node_is_elder(node)
           THEN neighbour_prefixes = {}
           ELSE /\ \A prefix \in neighbour_prefixes :
                       ~Prefix_is_compatible(prefix, our_prefix)
                /\ \A prefix \in neighbour_prefixes :
                       Cardinality(Node_section_elders(node, prefix)) >= elder_size
                /\ \A prefix \in neighbour_prefixes :
                       \A name \in Node_section_elders(node, prefix) :
                           Prefix_matches(prefix, name)
                /\ \A prefix \in neighbour_prefixes :
                       Prefix_is_neighbour(our_prefix, prefix)
                /\ \A i \in 0 .. our_prefix.bit_count - 1 :
                       Prefix_is_covered_by(Prefix_with_flipped_bit(our_prefix, i),
                                            neighbour_prefixes)

verify_section_invariants_for_nodes(ns, elder_size) ==
    \A i \in DOMAIN ns : verify_section_invariants_for_node(ns[i], elder_size)

\* The prefixes an elder mentions: its own and its neighbours'.
MentionedBy(node) == {Node_our_prefix(node)} \cup Node_neighbour_prefixes(node)

\* The keys of the map `sections` the checker builds: the prefixes the
\* elders mention.
SectionKeys(ns) ==
    UNION { MentionedBy(ns[i]) : i \in { j \in DOMAIN ns : Node_is_elder(ns[j]) } }

\* The entry of that map: the view of the first elder that mentions the
\* prefix.
FirstMention(ns, prefix) ==
    LET i == CHOOSE j \in DOMAIN ns :
                 /\ Node_is_elder(ns[j])
                 /\ prefix \in MentionedBy(ns[j])
                 /\ \A k \in 1 .. j - 1 :
                        ~(Node_is_elder(ns[k]) /\ prefix \in MentionedBy(ns[k]))
    IN  [view_section_version |-> Node_section_elder_info_version(ns[i], prefix),
         view_section_elders |-> Node_section_elders(ns[i], prefix)]

\* Every later mention of a prefix agrees with the first one.
MentionsAgree(ns) ==
    \A i \in DOMAIN ns :
        Node_is_elder(ns[i]) =>
            \A prefix \in MentionedBy(ns[i]) :
                /\ Node_section_elders(ns[i], prefix)
                       = FirstMention(ns, prefix).view_section_elders
                /\ Node_section_elder_info_version(ns[i], prefix)
                       = FirstMention(ns, prefix).view_section_version

PrefixesDisjoint(ns) ==
    \A prefix1 \in SectionKeys(ns), prefix2 \in SectionKeys(ns) :
        prefix1 # prefix2 => ~Prefix_is_compatible(prefix1, prefix2)

ElderNamesMatch(ns) ==
    \A prefix \in SectionKeys(ns) :
        \A name \in FirstMention(ns, prefix).view_section_elders :
            Prefix_matches(prefix, name)

NamespaceCovered(ns) == Prefix_is_covered_by(Prefix_default, SectionKeys(ns))

verify_section_invariants_between_nodes(ns) ==
    /\ MentionsAgree(ns)
    /\ PrefixesDisjoint(ns)
    /\ ElderNamesMatch(ns)
    /\ NamespaceCovered(ns)

(***************************************************************************)
(* The network: what the consensus engine agrees on, and how each node     *)
(* applies it when it is polled.                                           *)
(***************************************************************************)

\* The parameters of the test environment.
ElderSize == 2

SafeSectionSize == 2

\* What the consensus engine holds for a section: the current EldersInfo
\* and the members, elders and adults.
Section(prefix, version, elders, members) ==
    [prefix |-> prefix, version |-> version, elders |-> elders,
     members |-> members]

Section_info(section) ==
    EldersInfo(section.prefix, section.version, section.elders)

\* The section a name belongs to.
SectionOf(name) ==
    CHOOSE section \in sections : Prefix_matches(section.prefix, name)

\* The current infos of the sections next to a prefix.
NeighbourInfos(prefix) ==
    { Section_info(section) :
          section \in { s \in sections : Prefix_is_neighbour(prefix, s.prefix) } }

\* The elders of the sections next to a prefix.
NeighbourElders(prefix) ==
    UNION { section.elders :
                section \in { s \in sections :
                                  Prefix_is_neighbour(prefix, s.prefix) } }

\* What a node finds in its inbox.
OwnUpdate(info) == [kind |-> "Own", infos |-> {info}]

SplitUpdate(low, high) == [kind |-> "Split", infos |-> {low, high}]

NeighbourUpdate(infos) == [kind |-> "Neighbour", infos |-> infos]

\* A node starts with the EldersInfo of its section and no neighbours.
Node_new(name, info, connected) ==
    [name |-> name, own |-> info, neighbours |-> {},
     events |-> <<Connected(connected)>>, inbox |-> << >>]

\* Promoted or Demoted, when the update changed whether the node is an
\* elder of its section.
ElderChange(before, after) ==
    IF ~Node_is_elder(before) /\ Node_is_elder(after) THEN <<Promoted>>
    ELSE IF Node_is_elder(before) /\ ~Node_is_elder(after) THEN <<Demoted>>
    ELSE << >>

\* An adult keeps no neighbour infos.
KeptNeighbours(node, infos) == IF Node_is_elder(node) THEN infos ELSE {}

\* Chain update for the node's own section: a newer EldersInfo replaces
\* the current one.
Node_handle_own(node, info) ==
    IF info.version <= node.own.version
    THEN node
    ELSE LET updated == [node EXCEPT !.own = info]
         IN  [updated EXCEPT
                  !.neighbours = KeptNeighbours(updated, @),
                  !.events = @ \o ElderChange(node, updated)]

\* Variant: what a new neighbour info supersedes is kept.
Node_handle_neighbours_nothing_retired(node, infos) ==
    [node EXCEPT
         !.neighbours =
             KeptNeighbours(node,
                 @ \cup { info \in infos :
                            Prefix_is_neighbour(node.own.prefix, info.prefix) })]

\* Chain update for neighbour sections: an EldersInfo of a neighbour prefix
\* is installed when the node holds none of that prefix or an older one;
\* what it supersedes (an older version, a parent that has split) is
\* retired.  An adult holds no neighbour infos.
Node_handle_neighbours(node, infos) ==
    LET accepted ==
            { info \in infos :
                /\ Prefix_is_neighbour(node.own.prefix, info.prefix)
                /\ \A held \in node.neighbours :
                       held.prefix = info.prefix => held.version < info.version }
        retired ==
            { held \in node.neighbours :
                \E info \in accepted : Prefix_is_compatible(held.prefix, info.prefix) }
    IN  [node EXCEPT
             !.neighbours =
                 KeptNeighbours(node, (@ \ retired) \cup accepted)]

\* Variant: the sibling's info is kept whether the node is an elder or not.
Node_handle_split_keeps_sibling(node, infos) ==
    LET mine == CHOOSE info \in infos : Prefix_matches(info.prefix, node.name)
        updated == [node EXCEPT !.own = mine]
    IN  [updated EXCEPT
             !.neighbours =
                 { held \in @ : Prefix_is_neighbour(mine.prefix, held.prefix) }
                     \cup (infos \ {mine}),
             !.events = @ \o <<SectionSplit(mine.prefix)>>
                          \o ElderChange(node, updated)]

\* Section split: the EldersInfo of the node's section is retired and the
\* two new ones are installed, the one matching the node's name as its own
\* and the other one as a neighbour's; the neighbours that are no longer
\* next to the node's prefix are dropped.
Node_handle_split(node, infos) ==
    LET mine == CHOOSE info \in infos : Prefix_matches(info.prefix, node.name)
        updated == [node EXCEPT !.own = mine]
    IN  [updated EXCEPT
             !.neighbours =
                 KeptNeighbours(updated,
                     { held \in @ : Prefix_is_neighbour(mine.prefix, held.prefix) }
                         \cup (infos \ {mine})),
             !.events = @ \o <<SectionSplit(mine.prefix)>>
                          \o ElderChange(node, updated)]

\* The node handles the first item of its inbox.
Node_handle_selected_operation(node) ==
    LET item == Head(node.inbox)
        rest == [node EXCEPT !.inbox = Tail(@)]
    IN  CASE item.kind = "Own" ->
                 Node_handle_own(rest, CHOOSE info \in item.infos : TRUE)
          [] item.kind = "Split" -> Node_handle_split(rest, item.infos)
          [] item.kind = "Neighbour" -> Node_handle_neighbours(rest, item.infos)

\* TestNode::poll: the node handles what it finds in its inbox until there
\* is nothing left.
RECURSIVE Node_poll(_)
Node_poll(node) ==
    IF node.inbox = << >>
    THEN node
    ELSE Node_poll(Node_handle_selected_operation(node))

\* The item is put into the inbox of the nodes named.
Enqueue(ns, names, item) ==
    [i \in DOMAIN ns |->
        IF ns[i].name \in names
        THEN [ns[i] EXCEPT !.inbox = Append(@, item)]
        ELSE ns[i]]

\* A split of the section is due: each half holds enough members.
SplitDue(section) ==
    /\ section.prefix.bit_count < NameBits
    /\ \A bit \in BOOLEAN :
           Cardinality({ name \in section.members :
                           Prefix_matches(Prefix_pushed(section.prefix, bit), name) })
               >= SafeSectionSize

Busy(node) == node.inbox # << >>

\* poll_and_resend has returned: no node has anything left to handle and
\* the consensus engine has nothing left to decide.
Quiescent ==
    /\ \A i \in DOMAIN nodes : ~Busy(nodes[i])
    /\ \A section \in sections : ~SplitDue(section)

\* The node created with first = true is an elder of the whole address
\* space at once.
NetInit ==
    /\ nodes = << Node_new(FirstName,
                           EldersInfo(Prefix_default, 0, {FirstName}),
                           "First") >>
    /\ sections = { Section(Prefix_default, 0, {FirstName}, {FirstName}) }
    /\ relocations = 0

\* The elders of a section once a member has been added: the new member is
\* made an elder while the section has fewer than ElderSize of them.
EldersWith(section, name) ==
    IF Cardinality(section.elders) < ElderSize
    THEN section.elders \cup {name}
    ELSE section.elders

\* Variant: a node that becomes an elder is told nothing about the
\* neighbours.
ToldOfNeighbours_nothing(ns, names, infos) == ns

\* The nodes named are told about the sections next to theirs, when there
\* are any.
ToldOfNeighbours(ns, names, infos) ==
    IF infos = {} THEN ns ELSE Enqueue(ns, names, NeighbourUpdate(infos))

\* Variant: only the new member is told about the new EldersInfo.
Informed_new_only(section, name) == {name}

\* Who is told about the new EldersInfo of a section a member is added to.
Informed(section, name) == section.members \cup {name}

\* The member is added to the section its name belongs to.  When that
\* changes the elders, the new EldersInfo goes to the members of the section
\* and to the elders of its neighbours, and the new elder is told about the
\* neighbours.
Admitted(ns, node) ==
    LET section == SectionOf(node.name)
        elders == EldersWith(section, node.name)
        info == EldersInfo(section.prefix, section.version + 1, elders)
        joined == Append(ns, node)
    IN  IF elders = section.elders
        THEN joined
        ELSE LET told == Enqueue(joined, Informed(section, node.name),
                                 OwnUpdate(info))
                 next == Enqueue(told, NeighbourElders(section.prefix),
                                 NeighbourUpdate({info}))
             IN  ToldOfNeighbours(next, {node.name},
                                  NeighbourInfos(section.prefix))

SectionsWith(name) ==
    LET section == SectionOf(name)
        elders == EldersWith(section, name)
    IN  (sections \ {section})
            \cup { Section(section.prefix,
                           IF elders = section.elders THEN section.version
                           ELSE section.version + 1,
                           elders, section.members \cup {name}) }

UsedNames == { nodes[i].name : i \in DOMAIN nodes }

\* The harness adds a node: it bootstraps, joins the section its name
\* belongs to and is approved as an adult.
Join(name) ==
    /\ name \notin UsedNames
    /\ nodes' = Admitted(nodes,
                         Node_new(name, Section_info(SectionOf(name)), "First"))
    /\ sections' = SectionsWith(name)
    /\ UNCHANGED relocations
    /\ UNCHANGED <<filter_vars, boot_vars, harness_vars>>

\* The elder sets a half can get: the elders it already has, filled up with
\* adults of the half.
HalfElders(section, half) ==
    LET members == { name \in section.members : Prefix_matches(half, name) }
        elders == section.elders \cap members
    IN  { chosen \in SUBSET members :
            /\ elders \subseteq chosen
            /\ Cardinality(chosen) = ElderSize }

\* The consensus engine splits a section.  The two new infos go to the
\* members of the section and to the elders of its neighbours; a member
\* that becomes an elder is told about the neighbours of its half.
Split(section, low_elders, high_elders) ==
    LET low == EldersInfo(Prefix_pushed(section.prefix, FALSE),
                          section.version + 1, low_elders)
        high == EldersInfo(Prefix_pushed(section.prefix, TRUE),
                           section.version + 1, high_elders)
        promoted == (low_elders \cup high_elders) \ section.elders
        told == Enqueue(nodes, section.members, SplitUpdate(low, high))
        next == Enqueue(told, NeighbourElders(section.prefix),
                        NeighbourUpdate({low, high}))
        others == { Section_info(s) : s \in sections \ {section} }
    IN  /\ section \in sections
        /\ SplitDue(section)
        /\ nodes' = ToldOfNeighbours(next, promoted, others)
        /\ sections' =
               (sections \ {section})
                   \cup { Section(info.prefix, info.version, info.elders,
                                  { name \in section.members :
                                      Prefix_matches(info.prefix, name) }) :
                              info \in {low, high} }
        /\ UNCHANGED relocations
        /\ UNCHANGED <<filter_vars, boot_vars, harness_vars>>

\* The consensus engine relocates an adult: the node leaves its section,
\* takes a name of the destination section and joins it.
Relocate(i, name) ==
    /\ ~Node_is_elder(nodes[i])
    /\ name \in NetNames \ UsedNames
    /\ SectionOf(name) # SectionOf(nodes[i].name)
    /\ LET source == SectionOf(nodes[i].name)
           destination == SectionOf(name)
       IN  /\ nodes' = [nodes EXCEPT ![i] =
                   [@ EXCEPT !.name = name,
                             !.own = Section_info(destination),
                             !.neighbours = {},
                             !.events = Append(@, Connected("Relocate"))]]
           /\ sections' =
                  (sections \ {source, destination})
                      \cup { [source EXCEPT !.members = @ \ {nodes[i].name}],
                             [destination EXCEPT !.members = @ \cup {name}] }
    /\ relocations' = relocations + 1
    /\ UNCHANGED <<filter_vars, boot_vars, harness_vars>>

\* poll_all: the nodes are polled in the order of their creation; the
\* first one that has something to handle handles all of it.
Poll(i) ==
    /\ i \in DOMAIN nodes
    /\ Busy(nodes[i])
    /\ \A j \in 1 .. i - 1 : ~Busy(nodes[j])
    /\ nodes' = [nodes EXCEPT ![i] = Node_poll(@)]
    /\ UNCHANGED <<sections, relocations>>
    /\ UNCHANGED <<filter_vars, boot_vars, harness_vars>>

\* add_node_to_section: the harness adds a node once poll_and_resend has
\* returned.
AddNode ==
    /\ nodes # << >>
    /\ Len(nodes) < MaxNodes
    /\ Quiescent
    /\ \E name \in NetNames : Join(name)

\* The consensus engine decides on a relocation between two rounds of the
\* harness.
RelocateNode ==
    /\ relocations < MaxRelocations
    /\ Quiescent
    /\ \E i \in DOMAIN nodes, name \in NetNames : Relocate(i, name)

\* The consensus engine decides on a split that is due.
SplitSection ==
    \E section \in sections :
        \E low_elders \in HalfElders(section, Prefix_pushed(section.prefix, FALSE)),
           high_elders \in HalfElders(section, Prefix_pushed(section.prefix, TRUE)) :
            Split(section, low_elders, high_elders)

\* poll_all finds a node that has something to handle.
PollAll == \E i \in DOMAIN nodes : Poll(i)

NetNext ==
    \/ AddNode
    \/ SplitSection
    \/ RelocateNode
    \/ PollAll

NetSpecInit == NetInit /\ FilterInit /\ BootIdle /\ HarnessIdle

NetSpec == NetSpecInit /\ [][NetNext]_vars

\* poll_and_resend returns only when no node has anything left to handle
\* and no split is due.
NetLiveSpec == NetSpec /\ WF_vars(SplitSection) /\ WF_vars(PollAll)

(***************************************************************************)
(* sanity_check of the prefix lengths add_connected_nodes_until_split is   *)
(* given.                                                                  *)
(***************************************************************************)
\* The fold over the prefix lengths: it stops at the first length above 8,
\* and adds 1 << (8 - bit_count) to the sum otherwise.
RECURSIVE SumOfSections(_, _)
SumOfSections(prefix_lengths_left, accumulated) ==
    IF prefix_lengths_left = << >>
    THEN [in_range |-> TRUE, sum |-> accumulated]
    ELSE LET bit_count == Head(prefix_lengths_left)
         IN  IF ~(bit_count <= 8)
             THEN [in_range |-> FALSE, sum |-> accumulated]
             ELSE SumOfSections(Tail(prefix_lengths_left),
                                accumulated + 2 ^ (8 - bit_count))

\* Variant: a single prefix length is enough.
sanity_check_one_is_enough(lengths) ==
    IF ~(Len(lengths) > 0)
    THEN "There should be at least two specified prefix lengths"
    ELSE LET folded == SumOfSections(lengths, 0)
         IN  IF ~folded.in_range
             THEN "must each be no more than 8"
             ELSE IF folded.sum < 256
             THEN "would not cover the entire address space"
             ELSE IF folded.sum > 256
             THEN "would require overlapping sections"
             ELSE "Ok"

\* sanity_check: "Ok" when it returns, the message of the panic otherwise.
sanity_check(lengths) ==
    IF ~(Len(lengths) > 1)
    THEN "There should be at least two specified prefix lengths"
    ELSE LET folded == SumOfSections(lengths, 0)
         IN  IF ~folded.in_range
             THEN "must each be no more than 8"
             ELSE IF folded.sum < 256
             THEN "would not cover the entire address space"
             ELSE IF folded.sum > 256
             THEN "would require overlapping sections"
             ELSE "Ok"

\* The lists of prefix lengths a test may pass.
PrefixLengthLists == SeqsUpTo(0 .. MaxBitCount, MaxLengths)

HarnessInit ==
    /\ prefix_lengths \in PrefixLengthLists
    /\ checked = "NotChecked"

\* add_connected_nodes_until_split checks the prefix lengths it was given.
SanityCheck ==
    /\ checked = "NotChecked"
    /\ checked' = sanity_check(prefix_lengths)
    /\ UNCHANGED prefix_lengths
    /\ UNCHANGED <<filter_vars, boot_vars, net_vars>>

HarnessNext == SanityCheck

HarnessSpecInit == HarnessInit /\ FilterInit /\ BootIdle /\ NetIdle

HarnessSpec == HarnessSpecInit /\ [][HarnessNext]_vars

(***************************************************************************)
(* Properties of the message filter.                                       *)
(***************************************************************************)
IsCall(op) == last.op = op /\ message_dst(last.msg) # "Direct"

\* C1: the first filter_incoming of a non-Direct message returns NewMessage,
\* and every later filter_incoming of it made less than the incoming expiry
\* duration (1200 s) after the first returns KnownMessage.
C1_IncomingFirstNewThenKnown ==
    IsCall("incoming") =>
        IF last.before.first = NoTime
        THEN last.result = "NewMessage"
        ELSE (last.at - last.before.first < INCOMING_EXPIRY_DURATION_SECS
                  => last.result = "KnownMessage")

\* A repeat of a message more than the outgoing duration, yet less than the
\* incoming duration, after its first occurrence was reported known.
C1_Witness ==
    /\ IsCall("incoming")
    /\ last.before.first # NoTime
    /\ last.at - last.before.first > OUTGOING_EXPIRY_DURATION_SECS
    /\ last.at - last.before.first < INCOMING_EXPIRY_DURATION_SECS
    /\ last.result = "KnownMessage"

\* C2: filter_outgoing never returns NewMessage twice for the same
\* (digest, peer) within the outgoing expiry duration (600 s): a NewMessage
\* for a key that returned NewMessage before comes more than 600 s later.
C2_OutgoingNeverNewTwice ==
    (IsCall("outgoing") /\ last.result = "NewMessage" /\ last.before.new # NoTime)
        => last.at - last.before.new > OUTGOING_EXPIRY_DURATION_SECS

\* A call exactly 600 s after the NewMessage for the same key was reported
\* known, with calls for other keys in between.
C2_Witness ==
    /\ IsCall("outgoing")
    /\ last.before.new # NoTime
    /\ last.at - last.before.new = OUTGOING_EXPIRY_DURATION_SECS
    /\ last.result = "KnownMessage"
    /\ \E k \in Messages \X Peers :
           k # <<last.msg, last.peer>> /\ out_calls[k].latest # NoTime

\* C3: a Direct message gets NewMessage from filter_incoming and from
\* filter_outgoing on every call, however often it was filtered before.
C3_DirectAlwaysNew ==
    (last.op # "none" /\ message_dst(last.msg) = "Direct")
        => last.result = "NewMessage"

\* A Direct message that went through both filters before is filtered again.
C3_Witness ==
    /\ last.op = "outgoing"
    /\ message_dst(last.msg) = "Direct"
    /\ last.before.latest # NoTime
    /\ in_calls[last.msg].latest # NoTime
    /\ last.result = "NewMessage"

\* C4: filtering a Direct message leaves the incoming and the outgoing filter
\* as they were: nothing is added, re-stamped or evicted.
C4_DirectLeavesFilterUnchanged ==
    [][(ncalls' # ncalls /\ message_dst(last'.msg) = "Direct")
           => filter' = filter]_vars

\* A Direct message was filtered while both filters held entries, one of them
\* already past its expiry duration and not yet evicted.
C4_Witness ==
    /\ last.op # "none"
    /\ message_dst(last.msg) = "Direct"
    /\ filter.incoming # << >>
    /\ \E e \in filter.outgoing :
           Expired(e.instant, filter.outgoing_duration, last.at)

\* C5: outgoing deduplication is per (digest, recipient): a message not yet
\* offered to a peer gets NewMessage for that peer whatever was offered to
\* other peers; incoming deduplication is per digest: a repeat within the
\* duration is known whichever peer delivered it.
C5_OutgoingPerRecipientIncomingPerDigest ==
    /\ (IsCall("outgoing") /\ last.before.latest = NoTime)
           => last.result = "NewMessage"
    /\ (IsCall("incoming") /\ last.before.latest # NoTime
            /\ last.at - last.before.latest < INCOMING_EXPIRY_DURATION_SECS)
           => last.result = "KnownMessage"

\* The message got NewMessage for a second peer while the entry of the first
\* peer was still live.
C5_Witness ==
    /\ IsCall("outgoing")
    /\ last.before.latest = NoTime
    /\ last.result = "NewMessage"
    /\ \E q \in Peers \ {last.peer} :
           /\ out_calls[<<last.msg, q>>].new # NoTime
           /\ last.at - out_calls[<<last.msg, q>>].new < OUTGOING_EXPIRY_DURATION_SECS

\* C6: entries are forgotten after their duration: a non-Direct message
\* filtered again more than the filter's duration (1200 s incoming, 600 s
\* outgoing) after the latest call for the same key gets NewMessage again.
C6_ForgottenAfterTtl ==
    /\ (IsCall("incoming") /\ last.before.latest # NoTime
            /\ last.at - last.before.latest > INCOMING_EXPIRY_DURATION_SECS)
           => last.result = "NewMessage"
    /\ (IsCall("outgoing") /\ last.before.latest # NoTime
            /\ last.at - last.before.latest > OUTGOING_EXPIRY_DURATION_SECS)
           => last.result = "NewMessage"

\* An outgoing key is offered again 601 s after its latest call, which is
\* within the incoming duration.
C6_Witness ==
    /\ IsCall("outgoing")
    /\ last.before.latest # NoTime
    /\ last.at - last.before.latest = OUTGOING_EXPIRY_DURATION_SECS + 1
    /\ last.result = "NewMessage"

TimedOutPending(a) ==
    /\ event.type = "Timeout"
    /\ <<event.token, a>> \in pre.timeout_tokens
    /\ a \in pre.pending_requests

\* C9: a transport-level bootstrap failure emits exactly one Terminated event
\* and makes the node terminate, whatever pending_requests and
\* timeout_tokens hold.
C9_BootstrapFailureTerminates ==
    event.type = "BootstrapFailure" =>
        /\ transition = "Terminate"
        /\ state = "Terminate"
        /\ outbox = <<"Terminated">>

\* The failure arrived while requests were pending, one of them with its
\* timeout token still recorded, and another token already stale.
C9_Witness ==
    /\ event.type = "BootstrapFailure"
    /\ pre.pending_requests # {}
    /\ \E e \in pre.timeout_tokens : e[2] \in pre.pending_requests
    /\ \E e \in pre.timeout_tokens : e[2] \notin pre.pending_requests
    /\ state = "Terminate"
    /\ outbox = <<"Terminated">>

\* C10: when the timeout token of a still-pending peer fires, the peer is
\* removed from pending_requests and disconnected, the node stays in
\* Bootstrapping, and the transport bootstrap is re-invoked if and only if
\* pending_requests is empty afterwards.
C10_TimeoutOfPendingPeer ==
    \A a \in Addrs :
        TimedOutPending(a) =>
            /\ pending_requests = pre.pending_requests \ {a}
            /\ a \in disconnected
            /\ a \notin peer_map
            /\ transition = "Stay"
            /\ state = "BootstrappingPeer"
            /\ bootstraps = (IF pending_requests = {} THEN 1 ELSE 0)

\* The token of one of two pending peers fired: the peer is gone, the other
\* one is still pending and connected, and no bootstrap was started.
C10_Witness ==
    \E a \in Addrs :
        /\ TimedOutPending(a)
        /\ pending_requests # {}
        /\ pending_requests \subseteq peer_map
        /\ a \in disconnected
        /\ bootstraps = 0

\* What handle_timeout makes of the node `pre` when a token recorded for
\* peer a, and for no one else, fires.
TimeoutOn(a) ==
    LET token == MaxTokens + 1
    IN  handle_timeout(
            [pre EXCEPT !.timeout_tokens = @ \cup {<<token, a>>}], token).self

\* C11: a connection failure on a peer is handled as a timeout on that peer
\* is, in every state, pending or not: pending_requests, the connection to
\* the peer and the number of transport bootstraps started are what the
\* firing of a timeout token recorded for the peer would have left.
C11_ConnectionFailureSameAsTimeout ==
    event.type = "ConnectionFailure" =>
        /\ pending_requests = TimeoutOn(event.addr).pending_requests
        /\ (event.addr \in peer_map) = (event.addr \in TimeoutOn(event.addr).peer_map)
        /\ bootstraps = TimeoutOn(event.addr).bootstraps

\* The input was a message from a peer without a pending request.
FromUnexpectedPeer ==
    /\ event.type = "NewMessage"
    /\ event.sender \notin pre.pending_requests

\* The message handled last got as far as handle_message: addressed to the
\* node, of an accepted variant, fully verified.
HandledMessage ==
    /\ event.type = "NewMessage"
    /\ in_dst_location(event.msg.dst)
    /\ should_handle_message(event.msg)
    /\ verify_message(event.msg) = "Ok"

\* The sender was disconnected and the node is as it was before.
IgnoredAndDisconnected ==
    /\ event.sender \in disconnected
    /\ event.sender \notin peer_map
    /\ transition = "Stay"
    /\ state = "BootstrappingPeer"
    /\ pending_requests = pre.pending_requests
    /\ timeout_tokens = pre.timeout_tokens
    /\ full_id = pre.full_id
    /\ relocate_details = pre.relocate_details

\* C12 as stated: a message of any variant whose sender is not in
\* pending_requests is ignored and its sender disconnected, the node staying
\* in Bootstrapping with pending_requests, timeout_tokens, full_id and
\* relocate_details unchanged.
C12_AnyMessageFromUnexpectedPeer ==
    FromUnexpectedPeer => IgnoredAndDisconnected

\* C12, amended: a fully verified Direct BootstrapResponse (Join or
\* Rebootstrap) whose sender is not in pending_requests is ignored: the
\* sender is disconnected, the node stays in Bootstrapping, and
\* pending_requests, timeout_tokens, full_id and relocate_details are
\* unchanged.
C12_ResponseFromUnexpectedPeer ==
    (FromUnexpectedPeer /\ HandledMessage) => IgnoredAndDisconnected

\* A relocating node with a request pending got a Join response from the
\* other address; its name did not match the prefix the response carries.
C12_Witness ==
    /\ FromUnexpectedPeer
    /\ HandledMessage
    /\ event.msg.variant.response = "Join"
    /\ pre.pending_requests # {}
    /\ pre.relocate_details # None
    /\ ~Prefix_matches(Prefix_new(event.msg.variant.bit_count + 3,
                                  get_destination(pre)), pre.full_id)
    /\ IgnoredAndDisconnected

\* The node is exactly as the input found it: no field changed, nothing
\* sent, no one disconnected, no bootstrap started, no user event, no
\* transition.
NothingDone ==
    /\ SelfIs(pre)
    /\ outbox = << >>
    /\ transition = "Stay"
    /\ state = "BootstrappingPeer"
    /\ joining_details = None

\* C13: a message is accepted if and only if its variant is
\* BootstrapResponse.  An accepted message is acted on (the node leaves the
\* state, fails in join_section, or disconnects someone); a message of any
\* other variant is dropped: nothing changes and there is no transition.
C13_OnlyBootstrapResponseAccepted ==
    (event.type = "NewMessage" /\ event.msg.dst = "Direct" /\ event.msg.full) =>
        IF event.msg.variant.kind = "BootstrapResponse"
        THEN transition # "Stay" \/ disconnected # {}
        ELSE NothingDone

\* A NodeApproval from a peer with a pending request, sent to a relocating
\* node that has also a stale timeout token, was dropped.
C13_Witness ==
    /\ event.type = "NewMessage"
    /\ event.msg.variant.kind = "NodeApproval"
    /\ event.sender \in pre.pending_requests
    /\ pre.relocate_details # None
    /\ \E e \in pre.timeout_tokens : e[2] \notin pre.pending_requests
    /\ NothingDone

\* A Join response from a peer with a pending request reached join_section.
JoinHandled ==
    /\ HandledMessage
    /\ event.msg.variant.response = "Join"
    /\ event.sender \in pre.pending_requests

\* The first k bits of a name (all of them when k exceeds the name's width).
TopBits(name, k) ==
    IF k >= NameBits THEN name ELSE name \div (2 ^ (NameBits - k))

\* Names a and b agree in the first (bit_count + 3) bits, bit_count being
\* that of the prefix the Join response carries.
SameExtendedPrefix(a, b) ==
    TopBits(a, event.msg.variant.bit_count + 3)
        = TopBits(b, event.msg.variant.bit_count + 3)

\* The destination as the Join response found it: the relocation destination
\* of a relocating node, the node's own name otherwise.
JoinDestination ==
    IF pre.relocate_details # None
    THEN pre.relocate_details.destination
    ELSE pre.full_id

\* C14: after a Join response from a pending peer is handled successfully,
\* the node's name agrees with the destination in the first (bit_count + 3)
\* bits, and the FullId was regenerated if and only if the old name did not
\* agree with it already.
C14_NameMatchesExtendedPrefix ==
    (JoinHandled /\ transition = "IntoJoining") =>
        /\ SameExtendedPrefix(full_id, JoinDestination)
        /\ (full_id # pre.full_id) = ~SameExtendedPrefix(pre.full_id, JoinDestination)

\* A relocating node whose name agreed with the destination in the section's
\* prefix, but not in the three bits after it, joined under a new name.
C14_Witness ==
    /\ JoinHandled
    /\ transition = "IntoJoining"
    /\ state = "JoiningPeer"
    /\ pre.relocate_details # None
    /\ TopBits(pre.full_id, event.msg.variant.bit_count)
           = TopBits(JoinDestination, event.msg.variant.bit_count)
    /\ full_id # pre.full_id
    /\ SameExtendedPrefix(full_id, JoinDestination)

\* C15: the IntoJoining transition carries a RelocatePayload if and only if
\* relocate_details was set; the payload binds the FullId held before any
\* regeneration to the new id and holds those details; and relocate_details
\* is consumed, so no later payload can be made of it.
C15_PayloadIffRelocating ==
    (JoinHandled /\ transition = "IntoJoining") =>
        /\ (joining_details.relocate_payload # None) = (pre.relocate_details # None)
        /\ joining_details.relocate_payload # None =>
               /\ joining_details.relocate_payload.old_id = pre.full_id
               /\ joining_details.relocate_payload.new_id = full_id
               /\ joining_details.relocate_payload.details = pre.relocate_details
        /\ relocate_details = None

\* A relocating node changed its name and joined with a payload binding the
\* old id to the new one.
C15_Witness ==
    /\ JoinHandled
    /\ transition = "IntoJoining"
    /\ pre.relocate_details # None
    /\ full_id # pre.full_id
    /\ joining_details.relocate_payload # None
    /\ joining_details.relocate_payload.old_id = pre.full_id
    /\ joining_details.relocate_payload.new_id = full_id
    /\ relocate_details = None

\* A Rebootstrap response from a peer with a pending request was handled.
RebootstrapHandled ==
    /\ HandledMessage
    /\ event.msg.variant.response = "Rebootstrap"
    /\ event.sender \in pre.pending_requests

\* The distinct addresses among the contacts of the response.
NewContacts ==
    { event.msg.variant.conn_infos[i] :
          i \in 1 .. Len(event.msg.variant.conn_infos) }

\* C16: after a Rebootstrap response from a pending peer, every previous
\* connection was disconnected, no previous timeout token is kept, the node
\* stays in Bootstrapping, pending_requests is the set of distinct addresses
\* of the new contacts, and each of them was sent exactly one
\* BootstrapRequest and has exactly one timeout token.
C16_RebootstrapRedials ==
    RebootstrapHandled =>
        /\ pre.peer_map \subseteq disconnected
        /\ timeout_tokens \cap pre.timeout_tokens = {}
        /\ transition = "Stay"
        /\ state = "BootstrappingPeer"
        /\ pending_requests = NewContacts
        /\ peer_map = NewContacts
        /\ \A a \in NewContacts :
               /\ Cardinality({ i \in 1 .. Len(sent) : sent[i].to = a }) = 1
               /\ Cardinality({ e \in timeout_tokens : e[2] = a }) = 1
        /\ Len(sent) = Cardinality(NewContacts)
        /\ Cardinality(timeout_tokens) = Cardinality(NewContacts)
        /\ \A i \in 1 .. Len(sent) : sent[i].variant = "BootstrapRequest"
        /\ \A e \in timeout_tokens :
               e[1] \in timer_scheduled /\ e[1] >= pre.timer_next

\* The response named one address twice, while requests to both addresses
\* were pending.
C16_Witness ==
    /\ RebootstrapHandled
    /\ Len(event.msg.variant.conn_infos) > Cardinality(NewContacts)
    /\ Cardinality(pre.pending_requests) = 2
    /\ pending_requests = NewContacts
    /\ Len(sent) = 1
    /\ Cardinality(timeout_tokens) = 1

\* The requests the last input made the node send: (address, destination).
Requests ==
    { <<sent[i].to, sent[i].destination>> : i \in 1 .. Len(sent) }

\* C17: on entry, a relocating node has sent one BootstrapRequest carrying
\* the relocation destination to each supplied contact and has not invoked
\* the transport bootstrap; a node that is not relocating has invoked the
\* transport bootstrap and sent nothing, and every BootstrapRequest it
\* sends later carries its own current name.
C17_Entry ==
    /\ event.type = "relocate" =>
           /\ Requests = { <<event.conn_infos[i], event.destination>> :
                               i \in 1 .. Len(event.conn_infos) }
           /\ Len(sent) = Len(event.conn_infos)
           /\ \A i \in 1 .. Len(sent) : sent[i].variant = "BootstrapRequest"
           /\ relocate_details = [destination |-> event.destination]
           /\ bootstraps = 0
           /\ outstanding = 0
    /\ event.type = "new" =>
           /\ bootstraps = 1
           /\ sent = << >>
           /\ pending_requests = {}
           /\ relocate_details = None
    /\ (event.type \notin {"new", "relocate"} /\ pre.relocate_details = None) =>
           \A i \in 1 .. Len(sent) :
               /\ sent[i].variant = "BootstrapRequest"
               /\ sent[i].destination = full_id

\* A node relocated with two contacts has a request to each of them on its
\* way, for a destination that is not its own name.
C17_Witness ==
    /\ event.type = "relocate"
    /\ Len(event.conn_infos) = 2
    /\ event.destination # full_id
    /\ Requests = {<<1, event.destination>>, <<2, event.destination>>}
    /\ bootstraps = 0

LostOnlyContact ==
    /\ event.type = "ConnectionFailure"
    /\ pre.pending_requests = {event.addr}

\* C19: a node that loses the connection to its only contact does not
\* stall: handling the failure emits no user event and re-invokes the
\* transport bootstrap, which is then outstanding; and if the transport
\* reports bootstrap failure next, the node has emitted exactly one event,
\* Terminated, and has terminated.
C19_LoseProxyConnection ==
    [][/\ LostOnlyContact' =>
              /\ outbox' = << >>
              /\ bootstraps' = 1
              /\ outstanding' >= 1
              /\ pending_requests' = {}
              /\ state' = "BootstrappingPeer"
       /\ (LostOnlyContact /\ event'.type = "BootstrapFailure") =>
              /\ outbox' = <<"Terminated">>
              /\ state' = "Terminate"]_vars

\* The run of the test: bootstrapped to one contact, request sent, the
\* contact lost (its timeout token is still recorded), the new bootstrap
\* attempt failed, the node terminated.
C19_Witness ==
    /\ event.type = "BootstrapFailure"
    /\ pre.relocate_details = None
    /\ pre.timer_next = 1
    /\ pre.pending_requests = {}
    /\ pre.timeout_tokens # {}
    /\ pre.outstanding = 1
    /\ outbox = <<"Terminated">>
    /\ state = "Terminate"

\* The token that fired was no key of timeout_tokens.
UnknownTokenFired ==
    /\ event.type = "Timeout"
    /\ \A a \in Addrs : <<event.token, a>> \notin pre.timeout_tokens

\* C20: the firing of a token that is not, or no longer, a key of
\* timeout_tokens changes nothing: no disconnect, no bootstrap, nothing
\* sent, pending_requests and every other field as before, Transition::Stay.
\* A token that fires is no key of timeout_tokens afterwards, so a second
\* firing of it would be such a firing.
C20_DiscardedTokenIgnored ==
    /\ UnknownTokenFired =>
           /\ pending_requests = pre.pending_requests
           /\ timeout_tokens = pre.timeout_tokens
           /\ peer_map = pre.peer_map
           /\ outstanding = pre.outstanding
           /\ full_id = pre.full_id
           /\ relocate_details = pre.relocate_details
           /\ timer_next = pre.timer_next
           /\ disconnected = {}
           /\ bootstraps = 0
           /\ sent = << >>
           /\ outbox = << >>
           /\ transition = "Stay"
           /\ state = "BootstrappingPeer"
    /\ event.type = "Timeout" =>
           \A a \in Addrs : <<event.token, a>> \notin timeout_tokens

\* A token this node scheduled itself fired after a Rebootstrap response
\* had made the node discard it, while requests of the new round were
\* pending.
C20_Witness ==
    /\ UnknownTokenFired
    /\ pre.relocate_details = None
    /\ pre.full_id = 0
    /\ pre.pending_requests # {}
    /\ \A e \in pre.timeout_tokens : e[1] > event.token
    /\ pending_requests = pre.pending_requests
    /\ bootstraps = 0


\* A user request to send a message was handled in Bootstrapping.
SendRequested == event.type = "SendMessage"

\* C21: a user request to send a message, whatever its source, destination
\* and content, returns success, sends nothing on the transport (no message,
\* no bootstrap attempt, no disconnect), emits no event and leaves the state
\* as it was.
C21_SendMessageOkAndNothingDone ==
    SendRequested =>
        /\ transition = "Stay"
        /\ state = "BootstrappingPeer"
        /\ sent = << >>
        /\ bootstraps = 0
        /\ disconnected = {}
        /\ outbox = << >>
        /\ SelfIs(pre)

\* The request named a section as its source, although the node is no elder
\* of any section, and was made while a bootstrap request was pending.
C21_Witness ==
    /\ SendRequested
    /\ event.src = "Section"
    /\ event.dst = "Direct"
    /\ event.content = << >>
    /\ pre.pending_requests # {}
    /\ transition = "Stay"


\* A message whose verification did not end with the status Full arrived.
UnverifiedArrived ==
    /\ event.type = "NewMessage"
    /\ ~event.msg.full

\* C22: a message that is not fully verified is not handled.  It leaves the
\* node as it was, sends nothing, disconnects nobody, emits no event and
\* causes no transition; when it is addressed to the node and of the accepted
\* variant, so that verify_message is called on it, the call ends with an
\* error.
C22_UnverifiedNotHandled ==
    UnverifiedArrived =>
        /\ SelfIs(pre)
        /\ state = "BootstrappingPeer"
        /\ joining_details = None
        /\ outbox = << >>
        /\ transition \in {"Stay", "Err"}
        /\ (in_dst_location(event.msg.dst) /\ should_handle_message(event.msg))
               => transition = "Err"

\* A relocating node got a Join response that was not fully verified from a
\* peer it had sent a request to.
C22_Witness ==
    /\ UnverifiedArrived
    /\ event.msg.dst = "Direct"
    /\ event.msg.variant.kind = "BootstrapResponse"
    /\ event.msg.variant.response = "Join"
    /\ event.sender \in pre.pending_requests
    /\ pre.relocate_details # None
    /\ transition = "Err"
    /\ state = "BootstrappingPeer"

\* An input has been handled by the Bootstrapping state.
Handled ==
    event.type \in { "Timeout", "BootstrappedTo", "BootstrapFailure",
                     "ConnectionFailure", "NewMessage", "SendMessage" }

\* The input was a fully verified Join response from a peer with a pending
\* request.
JoinFromPendingPeer ==
    /\ event.type = "NewMessage"
    /\ event.msg.full
    /\ event.msg.variant.kind = "BootstrapResponse"
    /\ event.msg.variant.response = "Join"
    /\ event.sender \in pre.pending_requests

\* C29: handling an input in Bootstrapping ends with Stay, IntoJoining or
\* Terminate, a handler that fails leaving the node in the state as Stay
\* does.  IntoJoining comes only from a fully verified Join response of a
\* peer with a pending request, Terminate only from a failure of the
\* transport bootstrap; a timeout and a connection failure yield Stay, and
\* so does a message from a peer without a pending request and a Rebootstrap
\* response that is handled.
C29_OutcomesOfBootstrapping ==
    Handled =>
        /\ transition \in {"Stay", "IntoJoining", "Terminate", "Err"}
        /\ state = CASE transition = "IntoJoining" -> "JoiningPeer"
                     [] transition = "Terminate" -> "Terminate"
                     [] OTHER -> "BootstrappingPeer"
        /\ transition = "IntoJoining" => JoinFromPendingPeer
        /\ transition = "Terminate" => event.type = "BootstrapFailure"
        /\ event.type \in {"Timeout", "ConnectionFailure", "BootstrappedTo"} =>
               transition = "Stay"
        /\ transition = "Err" =>
               /\ event.type = "NewMessage"
               /\ ~event.msg.full \/ (JoinFromPendingPeer /\ ~event.payload_ok)
        /\ ( /\ event.type = "NewMessage"
             /\ event.msg.full
             /\ \/ event.sender \notin pre.pending_requests
                \/ event.msg.variant.kind # "BootstrapResponse"
                \/ event.msg.variant.response = "Rebootstrap" ) =>
               transition = "Stay"

\* A relocating node with two pending requests went into Joining on a
\* verified Join response.
C29_Witness ==
    /\ JoinFromPendingPeer
    /\ transition = "IntoJoining"
    /\ state = "JoiningPeer"
    /\ pre.relocate_details # None
    /\ Cardinality(pre.pending_requests) > 1

\* C30: no message makes the node panic.  handle_message ends in its
\* unreachable!() branch for a variant other than BootstrapResponse, and
\* it is given only messages should_handle_message has accepted, which are
\* BootstrapResponses.
C30_NoPanic ==
    /\ transition # "Panic"
    /\ state # "Panicked"
    /\ \A msg \in BootMessages, a \in Addrs :
           should_handle_message(msg) =>
               handle_message(Self, a, msg, 0, TRUE).transition # "Panic"

\* A verified message of another variant, from a peer with a pending
\* request, was delivered and the node is still there.
C30_Witness ==
    /\ event.type = "NewMessage"
    /\ event.msg.dst = "Direct"
    /\ event.msg.full
    /\ event.msg.variant.kind = "UserMessage"
    /\ event.sender \in pre.pending_requests
    /\ transition = "Stay"
    /\ state = "BootstrappingPeer"

\* C31: while the node is bootstrapping, every address in pending_requests
\* has a token in timeout_tokens that the timer has scheduled and not fired
\* yet.
C31_PendingHasTimeout ==
    state = "BootstrappingPeer" =>
        \A a \in pending_requests :
            \E e \in timeout_tokens : e[2] = a /\ e[1] \in timer_scheduled

\* Two requests are pending, each with its token, one of them next to the
\* token of an earlier request to the same address, which has failed.
C31_Witness ==
    /\ state = "BootstrappingPeer"
    /\ Cardinality(pending_requests) = 2
    /\ Cardinality(timeout_tokens) > 2
    /\ \A a \in pending_requests :
           \E e \in timeout_tokens : e[2] = a /\ e[1] \in timer_scheduled

\* The addresses of a list of contacts.
Contacts(conn_infos) == { conn_infos[i] : i \in DOMAIN conn_infos }

\* The requests and the tokens the input has added are one for each of the
\* addresses.
OneRequestEach(addrs, sent_before, tokens_before) ==
    /\ Len(sent) = Len(sent_before) + Cardinality(addrs)
    /\ \A a \in addrs :
           Cardinality({ i \in Len(sent_before) + 1 .. Len(sent) : sent[i].to = a }) = 1
    /\ \A a \in addrs :
           Cardinality({ e \in timeout_tokens \ tokens_before : e[2] = a }) = 1

\* C32: send_bootstrap_request does nothing for an address that has a
\* request pending: no BootstrapRequest is sent, no token is scheduled, and
\* pending_requests and timeout_tokens stay as they are.  So a BootstrappedTo
\* for a pending address changes nothing, and a list of contacts, given to
\* relocate or in a Rebootstrap response, gets one request for each
\* address however often the address is in the list.
C32_RequestIsIdempotent ==
    /\ \A a \in pending_requests : send_bootstrap_request(Self, a) = Self
    /\ (event.type = "BootstrappedTo" /\ event.addr \in pre.pending_requests) =>
           /\ pending_requests = pre.pending_requests
           /\ timeout_tokens = pre.timeout_tokens
           /\ timer_next = pre.timer_next
           /\ timer_scheduled = pre.timer_scheduled
           /\ sent = pre.sent
    /\ event.type = "relocate" =>
           /\ pending_requests = Contacts(event.conn_infos)
           /\ OneRequestEach(Contacts(event.conn_infos), << >>, {})
    /\ ( /\ event.type = "NewMessage"
         /\ event.msg \in RequestMessages
         /\ event.sender \in pre.pending_requests ) =>
           /\ pending_requests = Contacts(event.msg.variant.conn_infos)
           /\ OneRequestEach(Contacts(event.msg.variant.conn_infos), pre.sent, {})

\* The transport reports a bootstrap to an address that has a request
\* pending, and nothing is sent.
C32_Witness ==
    /\ event.type = "BootstrappedTo"
    /\ event.addr \in pre.pending_requests
    /\ Cardinality(pre.pending_requests) = 2
    /\ sent = pre.sent
    /\ timeout_tokens = pre.timeout_tokens

\* A Rebootstrap response names the same address twice, and one request
\* is sent to it.
C32_WitnessOfList ==
    /\ event.type = "NewMessage"
    /\ event.msg \in RequestMessages
    /\ event.sender \in pre.pending_requests
    /\ Len(event.msg.variant.conn_infos) = 2
    /\ Cardinality(Contacts(event.msg.variant.conn_infos)) = 1
    /\ Len(sent) = Len(pre.sent) + 1

\* The token scheduled for the request to address a that is pending in the
\* node: the timer hands out increasing tokens, so it is the highest one
\* recorded for a.
TokenOfRequest(node, a) ==
    CHOOSE t \in { e[1] : e \in { x \in node.timeout_tokens : x[2] = a } } :
        \A e \in node.timeout_tokens : e[2] = a => e[1] <= t

\* C33: a timeout drops a pending request only when the token that fires
\* is the one scheduled for that request, so not before BOOTSTRAP_TIMEOUT
\* has passed since the request was sent; also when an earlier request to
\* the same address has failed and its token has not fired yet.
C33_DroppedByOwnTokenOnly ==
    event.type = "Timeout" =>
        \A a \in pre.pending_requests \ pending_requests :
            event.token = TokenOfRequest(pre, a)

\* The node waits for something that will come: the answer to a request,
\* whose timeout is scheduled, or the outcome of a bootstrap attempt of the
\* transport.
Awaiting ==
    \/ \E a \in pending_requests :
           \E e \in timeout_tokens : e[2] = a /\ e[1] \in timer_scheduled
    \/ outstanding > 0

\* The input just handled made the node send a BootstrapRequest or start a
\* bootstrap attempt.
IssuedRequest == Handled /\ (sent # << >> \/ bootstraps > 0)

\* C34: the bootstrapping node never stalls.  In every state in which it is
\* bootstrapping, a request is pending with its timeout scheduled or a
\* bootstrap attempt of the transport is outstanding, also after a
\* Rebootstrap response and a relocation without contacts; so, transport
\* events and timer firings being delivered, it goes on to leave the state
\* or to issue a new request.
C34_NeverStalls ==
    /\ [](state = "BootstrappingPeer" => Awaiting)
    /\ [](state = "BootstrappingPeer" =>
            <>(state # "BootstrappingPeer" \/ IssuedRequest))

\* C35: when handling a Join response fails because the RelocatePayload
\* cannot be made, the node stays in Bootstrapping with its state unchanged:
\* full_id is the identity held before the call and relocate_details is
\* still set.
C35_FailedJoinChangesNothing ==
    (JoinFromPendingPeer /\ transition = "Err") =>
        /\ state = "BootstrappingPeer"
        /\ full_id = pre.full_id
        /\ relocate_details # None
        /\ relocate_details = pre.relocate_details

\* C36: a node that is not relocating never changes its FullId in
\* Bootstrapping.  Whatever the bit count of the prefix in the Join response
\* of a pending peer, join_section leaves full_id as it was and yields
\* IntoJoining without a RelocatePayload; for the prefix of bit_count + 3
\* bits of a name, cut to the width of a name, always matches that name.
C36_NonRelocatingKeepsFullId ==
    /\ (JoinHandled /\ pre.relocate_details = None) =>
           /\ full_id = pre.full_id
           /\ transition = "IntoJoining"
           /\ state = "JoiningPeer"
           /\ joining_details.relocate_payload = None
    /\ \A b \in 0 .. NameBits, n \in Names :
           Prefix_matches(Prefix_new(b + 3, n), n)

\* A node that is not relocating handled a Join response carrying the longest
\* prefix and joined under the name it had.
C36_Witness ==
    /\ JoinHandled
    /\ pre.relocate_details = None
    /\ event.msg.variant.bit_count = MaxPrefixBits
    /\ transition = "IntoJoining"
    /\ state = "JoiningPeer"
    /\ full_id = pre.full_id
    /\ joining_details.relocate_payload = None

\* The address space the sections of the given prefix lengths take up, a
\* section of prefix length b taking 2^(8-b) of the 256 addresses.
RECURSIVE AddressesTaken(_)
AddressesTaken(lengths) ==
    IF lengths = << >> THEN 0
    ELSE 2 ^ (8 - lengths[Len(lengths)])
             + AddressesTaken(SubSeq(lengths, 1, Len(lengths) - 1))

EachWithinByte(lengths) == \A i \in DOMAIN lengths : lengths[i] <= 8

\* C37: sanity_check accepts a list of prefix lengths if and only if it has
\* at least two elements, every element is at most 8 and the sections take
\* up exactly 256 addresses.  Otherwise it fails: with "at least two" for a
\* shorter list, whatever it holds; else with "no more than 8" when an
\* element exceeds 8, whatever the others add up to; else with "would not
\* cover the entire address space" for a sum below 256 and "would require
\* overlapping sections" for a sum above it.
C37_SanityCheck ==
    checked # "NotChecked" =>
        /\ (checked = "Ok") =
               (/\ Len(prefix_lengths) >= 2
                /\ EachWithinByte(prefix_lengths)
                /\ AddressesTaken(prefix_lengths) = 256)
        /\ Len(prefix_lengths) < 2 =>
               checked = "There should be at least two specified prefix lengths"
        /\ (Len(prefix_lengths) >= 2 /\ ~EachWithinByte(prefix_lengths)) =>
               checked = "must each be no more than 8"
        /\ (/\ Len(prefix_lengths) >= 2
            /\ EachWithinByte(prefix_lengths)
            /\ AddressesTaken(prefix_lengths) < 256) =>
               checked = "would not cover the entire address space"
        /\ (/\ Len(prefix_lengths) >= 2
            /\ EachWithinByte(prefix_lengths)
            /\ AddressesTaken(prefix_lengths) > 256) =>
               checked = "would require overlapping sections"

\* A list of more than two prefix lengths, not all the same, was accepted.
C37_Witness ==
    /\ checked = "Ok"
    /\ Len(prefix_lengths) > 2
    /\ \E i, j \in DOMAIN prefix_lengths : prefix_lengths[i] # prefix_lengths[j]

(***************************************************************************)
(* Properties of the test network.                                         *)
(***************************************************************************)

\* C23: once the events are fully processed, every elder passes the seven
\* checks of verify_section_invariants_for_node: its prefix matches its
\* name; its section has at least elder_size elders unless its prefix is
\* empty; the elders of its section match its prefix; no neighbour prefix
\* is compatible with its own; every neighbour section has at least
\* elder_size elders, all matching the neighbour prefix; every neighbour
\* prefix is a neighbour of its own; and its prefix with any one bit
\* flipped is covered by the neighbour prefixes.
C23_EldersPassPerNodeChecks ==
    Quiescent =>
        \A i \in DOMAIN nodes :
            Node_is_elder(nodes[i]) =>
                verify_section_invariants_for_node(nodes[i], ElderSize)

\* After two splits and a relocation, an elder of a two-bit section has a
\* one-bit and a two-bit neighbour, and an elder of another section has a
\* section next to its own that is not its sibling only.
C23_Witness ==
    /\ Quiescent
    /\ relocations > 0
    /\ \E i \in DOMAIN nodes :
           /\ Node_is_elder(nodes[i])
           /\ Node_our_prefix(nodes[i]).bit_count = 2
           /\ { prefix.bit_count : prefix \in Node_neighbour_prefixes(nodes[i]) }
                  = {1, 2}
           /\ verify_section_invariants_for_node(nodes[i], ElderSize)


Elders == { i \in DOMAIN nodes : Node_is_elder(nodes[i]) }

\* C25: once the events are fully processed, two elders that both mention
\* a prefix, as their own or as a neighbour's, hold the same EldersInfo
\* version and the same elder set for it.
C25_EldersAgreeOnSections ==
    Quiescent =>
        \A i \in Elders, j \in Elders :
            \A prefix \in MentionedBy(nodes[i]) \cap MentionedBy(nodes[j]) :
                /\ Node_section_elder_info_version(nodes[i], prefix)
                       = Node_section_elder_info_version(nodes[j], prefix)
                /\ Node_section_elders(nodes[i], prefix)
                       = Node_section_elders(nodes[j], prefix)

\* Elders of two sections mention the same prefix, one as its own and the
\* other as a neighbour's, after the elders of that prefix have changed
\* more than once, and the harness finds every mention in agreement.
C25_Witness ==
    /\ Quiescent
    /\ MentionsAgree(nodes)
    /\ \E i \in Elders, j \in Elders :
           /\ Node_our_prefix(nodes[i]) # Node_our_prefix(nodes[j])
           /\ Node_our_prefix(nodes[i]) \in Node_neighbour_prefixes(nodes[j])
           /\ Node_section_elder_info_version(nodes[j], Node_our_prefix(nodes[i])) > 2

\* The prefixes the elders know: their own and their neighbours'.
KnownPrefixes == UNION { MentionedBy(nodes[i]) : i \in Elders }

\* C26: once the events are fully processed, no two distinct prefixes known
\* to the elders are compatible, and together they cover the whole address
\* space.
C26_KnownPrefixesPartition ==
    Quiescent =>
        /\ \A prefix1 \in KnownPrefixes, prefix2 \in KnownPrefixes :
               prefix1 # prefix2 => ~Prefix_is_compatible(prefix1, prefix2)
        /\ Prefix_is_covered_by(Prefix_default, KnownPrefixes)

\* Four sections of two bits each, or a one-bit section next to two-bit
\* ones whose elders have retired the parent, and the harness finds the
\* prefixes disjoint and covering.
C26_Witness ==
    /\ Quiescent
    /\ Cardinality(KnownPrefixes) >= 3
    /\ { prefix.bit_count : prefix \in KnownPrefixes } = {1, 2}
    /\ PrefixesDisjoint(nodes)
    /\ NamespaceCovered(nodes)


RequestedPrefixes ==
    { Prefix_pushed(Prefix_default, bit) : bit \in BOOLEAN }

\* The nodes whose names match a prefix.
NodesIn(prefix) ==
    { i \in DOMAIN nodes : Prefix_matches(prefix, nodes[i].name) }

\* The harness is adding nodes to the two prefixes, with relocations
\* suppressed, and none holds more than safe_section_size nodes.
ForcedSplitRun ==
    /\ relocations = 0
    /\ \A prefix \in RequestedPrefixes :
           Cardinality(NodesIn(prefix)) <= SafeSectionSize

\* Each of the two prefixes holds safe_section_size nodes.
ForcedSplitFull ==
    /\ ForcedSplitRun
    /\ \A prefix \in RequestedPrefixes :
           Cardinality(NodesIn(prefix)) = SafeSectionSize

\* add_nodes_to_prefixes has returned.
ForcedSplitDone == ForcedSplitFull /\ Quiescent

\* The prefixes the harness gathers from the nodes.
ActualPrefixes == UNION { MentionedBy(nodes[i]) : i \in DOMAIN nodes }

\* The events the harness accepts when it clears the queues after the
\* split.
AcceptedAfterSplit(e) ==
    \/ e.event \in {"Client", "SectionSplit"}
    \/ e = Connected("Relocate")

\* What a node, polled in this step, adds to its event queue.
NewEvents(i) ==
    SubSeq(nodes'[i].events, Len(nodes[i].events) + 1, Len(nodes'[i].events))

\* The queue of a node is read once when the node has been added; what it
\* emits while a later node is added stays in the queue for the final
\* check.
EmitsOnlyAccepted ==
    ForcedSplitRun =>
        \A i \in 1 .. Len(nodes) - 1 :
            \A k \in DOMAIN NewEvents(i) : AcceptedAfterSplit(NewEvents(i)[k])

====
